---- MODULE Spec2Model ----
(***************************************************************************)
(* Ordered FP-tree miner of src/_scripts/fptree.py:                        *)
(*   get_items_metrics -> filter_frequency_and_weight -> construct_fptree  *)
(*   -> get_rules_metrics -> filter_confidence_and_lift.                   *)
(*                                                                         *)
(* Numbers.  Python floats are modelled as exact rationals [n, d] kept in  *)
(* lowest terms (the claims are about exact arithmetic).                   *)
(* Strings.  An item id is a sequence of character codes, so that the      *)
(* slice tag[:2] and the lexicographic order of ids are computed.          *)
(* Dicts.    A dict (OrderedDict, Counter, item_nodes) is a sequence of    *)
(* [key, val] entries in insertion order.                                  *)
(* Frames.   A pandas DataFrame is the sequence of its rows.               *)
(***************************************************************************)
EXTENDS Integers, Sequences, FiniteSets, TLC

VARIABLES
    pc,               \* position in the pipeline
    trans_db,         \* input: list of transactions (lists of items)
    item_weights,     \* input: item -> weight, for the items of trans_db
    min_item_freq,    \* input: thresholds of filter_frequency_and_weight
    min_item_weight,
    min_rule_conf,    \* input: thresholds of filter_confidence_and_lift
    min_rule_lift,
    all_items,        \* result of get_items_metrics
    items_metrics,    \* result of filter_frequency_and_weight
    tree,             \* treelib Tree: nid -> [tag, parent, freq, weight]
    item_nodes,       \* dict item -> list of nids
    new_nid,          \* next node id
    t_idx,            \* index in trans_db of the transaction being inserted
    ti,               \* ordered items of that transaction still to insert
    parent_nid,       \* current position in the tree
    all_rules,        \* result of get_rules_metrics
    rules_metrics,    \* result of filter_confidence_and_lift
    run,              \* 1 in the first run of the pipeline, 2 in a second run
    first_run,        \* what the first run returned, once it is over
    raised,           \* the key of the KeyError that ended the run, if any
    rule_calls,       \* calls of get_association_rules made on the built tree
    tasks,            \* item -> the locals of the task that synthesises its rules
    transaction_matrix,   \* _get_associations: gene -> the terms annotating it
    data,                 \* resource -> the hierarchy of its terms
    params,               \* the parameters of the analysis
    associations,         \* the table of associations, stage after stage
    associations_counter, \* dict stage -> size of the table after the stage
    printed,              \* the messages printed so far
    writers,              \* writer -> the locals of its insertion
    overlap,              \* two insertions have had their steps interleaved
    mini,                 \* get_numeric_input: the lowest value accepted
    maxi,                 \* get_numeric_input: the highest value accepted
    typed,                \* the entries the user has typed so far
    frames,               \* the calls in progress: the local negative of each
    var,                  \* the local var of the call that is returning
    console               \* the messages printed by get_numeric_input

vars == <<pc, trans_db, item_weights, min_item_freq, min_item_weight,
          min_rule_conf, min_rule_lift, all_items, items_metrics, tree,
          item_nodes, new_nid, t_idx, ti, parent_nid, all_rules, rules_metrics,
          run, first_run, raised, rule_calls, tasks, transaction_matrix, data,
          params, associations, associations_counter, printed, writers, overlap,
          mini, maxi, typed, frames, var, console>>

-----------------------------------------------------------------------------
(* Bounds of the explored inputs *)

MaxTrans == 3      \* transactions in a collection
MaxLen == 3        \* items listed by one transaction
MaxWeight == 2     \* weights are k / MaxWeight, k in 1..MaxWeight
MaxCalls == 2      \* calls of get_association_rules on one tree
MaxGenes == 3      \* genes (rows) of a transaction matrix
MaxWriters == 2    \* insertions that run on one tree at a time
MaxEntries == 3    \* entries typed at the prompts of get_numeric_input
MaxChars == 2      \* characters of one entry

-----------------------------------------------------------------------------
(* Exact rationals *)

Abs(x) == IF x < 0 THEN -x ELSE x

RECURSIVE GCD(_, _)
GCD(a, b) == IF b = 0 THEN a ELSE GCD(b, a % b)

\* n/d in lowest terms with a positive denominator (d # 0)
R(n, d) ==
    LET g == GCD(Abs(n), Abs(d))
        s == IF d < 0 THEN -1 ELSE 1
    IN  [n |-> (s * n) \div g, d |-> (s * d) \div g]

Zero == R(0, 1)
RatAdd(a, b) == R(a.n * b.d + b.n * a.d, a.d * b.d)
RatDiv(a, b) == R(a.n * b.d, a.d * b.n)
RatNeg(a) == [n |-> -a.n, d |-> a.d]
RatLess(a, b) == a.n * b.d < b.n * a.d
RatLeq(a, b) == a.n * b.d <= b.n * a.d
RatGeq(a, b) == RatLeq(b, a)

-----------------------------------------------------------------------------
(* Strings and dicts *)

Min(a, b) == IF a < b THEN a ELSE b

\* the slice forgotten: the whole string
Prefix2Whole(s) == s

\* s[:2]
Prefix2(s) == SubSeq(s, 1, Min(2, Len(s)))

\* Python's str < str: lexicographic on character codes
RECURSIVE StrLess(_, _)
StrLess(a, b) ==
    IF b = <<>> THEN FALSE
    ELSE IF a = <<>> THEN TRUE
    ELSE IF Head(a) # Head(b) THEN Head(a) < Head(b)
    ELSE StrLess(Tail(a), Tail(b))

DictKeys(d) == [i \in 1..Len(d) |-> d[i].key]
DictHas(d, k) == \E i \in 1..Len(d) : d[i].key = k
DictIdx(d, k) == CHOOSE i \in 1..Len(d) : d[i].key = k
\* d[k] for a key of d
DictGet(d, k) == d[DictIdx(d, k)].val
\* d.get(k, default)
DictGetOr(d, k, default) == IF DictHas(d, k) THEN DictGet(d, k) ELSE default
\* d[k] = v: an existing key keeps its place, a new key goes last
DictSet(d, k, v) ==
    IF DictHas(d, k)
    THEN [d EXCEPT ![DictIdx(d, k)] = [key |-> k, val |-> v]]
    ELSE Append(d, [key |-> k, val |-> v])

SeqToSet(s) == {s[i] : i \in 1..Len(s)}
SetMin(S) == CHOOSE x \in S : \A y \in S : x <= y

RECURSIVE Flatten(_)
Flatten(ss) == IF ss = <<>> THEN <<>> ELSE Head(ss) \o Flatten(Tail(ss))

-----------------------------------------------------------------------------
(* pandas helpers *)

\* DataFrame.sort_values on several columns: a stable sort.  before is the
\* strict order of the sort keys, as the set of the pairs <<a, b>> it holds for.
StableSort(rows, before) ==
    LET n == Len(rows)
        rank(i) == 1 + Cardinality({j \in 1..n :
                        \/ <<rows[j], rows[i]>> \in before
                        \/ (<<rows[i], rows[j]>> \notin before /\ j < i)})
    IN  [p \in 1..n |-> rows[CHOOSE i \in 1..n : rank(i) = p]]

\* list.index(x): position of the first occurrence
Index(s, x) == CHOOSE i \in 1..Len(s) : s[i] = x /\ \A j \in 1..(i - 1) : s[j] # x

\* the column 'item' of a frame
ItemColumn(rows) == [i \in 1..Len(rows) |-> rows[i].item]

\* frame[frame['item'] == item], first row
RowOf(rows, item) == rows[CHOOSE i \in 1..Len(rows) : rows[i].item = item]

-----------------------------------------------------------------------------
(* get_items_metrics *)

\* The third argument, item_labels, gives the column 'label', which no later
\* stage reads: it is left out, every item being given a label.

\* body of the inner loop: one occurrence of an item in a transaction
MetricsStep(rows, item, total_trans, weights) ==
    IF \E i \in 1..Len(rows) : rows[i].item = item
    THEN LET i == CHOOSE k \in 1..Len(rows) : rows[k].item = item
         IN  [rows EXCEPT ![i].freq = RatAdd(@, R(1, total_trans))]
    ELSE Append(rows, [item   |-> item,
                       freq   |-> RatAdd(Zero, R(1, total_trans)),
                       weight |-> weights[item]])

RECURSIVE MetricsLoop(_, _, _, _)
MetricsLoop(rows, occurrences, total_trans, weights) ==
    IF occurrences = <<>> THEN rows
    ELSE MetricsLoop(MetricsStep(rows, Head(occurrences), total_trans, weights),
                     Tail(occurrences), total_trans, weights)

get_items_metrics(db, weights) ==
    MetricsLoop(<<>>, Flatten(db), Len(db), weights)

\* the occurrences of items that item_weights[item] has no entry for
Unweighted(db, weights) ==
    {i \in 1..Len(Flatten(db)) : Flatten(db)[i] \notin DOMAIN weights}

\* the error names the first item of the collection
RaisedKeyFirstItem(db, weights) == Flatten(db)[1]

\* item_weights[item] is evaluated at every occurrence (it is an argument of
\* .get): the first occurrence without an entry raises KeyError(item)
RaisedKey(db, weights) == Flatten(db)[SetMin(Unweighted(db, weights))]

-----------------------------------------------------------------------------
(* filter_frequency_and_weight *)

\* strict comparisons: a value equal to the threshold is dropped
PassesThresholdStrict(value, threshold) ==
    IF RatLess(threshold, Zero)
    THEN RatLess(value, RatNeg(threshold))
    ELSE RatLess(threshold, value)

\* the test of one column against its threshold (minimum, or maximum when the
\* threshold is negative)
PassesThreshold(value, threshold) ==
    IF RatLess(threshold, Zero)
    THEN RatLeq(value, RatNeg(threshold))
    ELSE RatGeq(value, threshold)

\* sorted on the frequency alone: ties stay in first-seen order
ItemRowBeforeFreqOnly(r1, r2) == RatLess(r2.freq, r1.freq)

\* sort_values(by=['freq', 'item'], ascending=[False, True])
ItemRowBefore(r1, r2) ==
    \/ RatLess(r2.freq, r1.freq)
    \/ (r1.freq = r2.freq /\ StrLess(r1.item, r2.item))

filter_frequency_and_weight(rows, min_freq, min_weight) ==
    LET by_freq   == SelectSeq(rows, LAMBDA r : PassesThreshold(r.freq, min_freq))
        by_weight == SelectSeq(by_freq, LAMBDA r : PassesThreshold(r.weight, min_weight))
    IN  StableSort(by_weight,
            {p \in SeqToSet(by_weight) \X SeqToSet(by_weight) :
                ItemRowBefore(p[1], p[2])})

-----------------------------------------------------------------------------
(* order_transaction *)

\* the surviving items returned in the order of the transaction
order_transaction_unsorted(t, rows) ==
    SelectSeq(t, LAMBDA x : x \in SeqToSet(ItemColumn(rows)))

order_transaction(t, rows) ==
    LET order   == ItemColumn(rows)
        freq_ti == SelectSeq(t, LAMBDA x : x \in SeqToSet(order))
    IN  StableSort(freq_ti,
            {p \in SeqToSet(freq_ti) \X SeqToSet(freq_ti) :
                Index(order, p[1]) < Index(order, p[2])})

-----------------------------------------------------------------------------
(* construct_fptree *)

RootNid == 0
\* predecessor of the root (Python's None)
NoNid == -1

\* tree = Tree(); tree.create_node(tag="", identifier=0, data=NodeData("", ""))
\* The root's data is never read; its freq and weight are Zero here.
RootNode == [tag |-> <<>>, parent |-> NoNid, freq |-> Zero, weight |-> Zero]

\* tree.is_branch(nid): the ids of the children of nid
Children(t, nid) == {c \in DOMAIN t : t[c].parent = nid}

\* the children looked up among the keys of the index ("nid in item_nodes"):
\* the keys are items, so that no child is ever found
HasChildForAmongKeys(t, nodes, parent, item) == FALSE

\* item in item_nodes.keys() and any(nid in item_nodes[item] for nid in children_nids)
HasChildFor(t, nodes, parent, item) ==
    /\ DictHas(nodes, item)
    /\ \E nid \in Children(t, parent) : nid \in SeqToSet(DictGet(nodes, item))

\* the first node of the item, whoever its parent is
MatchingChildFirstNode(t, nodes, parent, item) ==
    SetMin(SeqToSet(DictGet(nodes, item)))

\* min(set(item_nodes[item]) & set(children_nids))
MatchingChild(t, nodes, parent, item) ==
    SetMin(SeqToSet(DictGet(nodes, item)) \cap Children(t, parent))

\* a new node given the count 1 instead of the share 1/total_trans
NewNodeCounted(item, parent, total_trans, rows) ==
    [tag |-> item, parent |-> parent,
     freq |-> R(1, 1), weight |-> RowOf(rows, item).weight]

\* NodeData(1/total_trans, items_metrics.loc[items_metrics['item'] == item, 'weight'].values[0])
NewNode(item, parent, total_trans, rows) ==
    [tag |-> item, parent |-> parent,
     freq |-> R(1, total_trans), weight |-> RowOf(rows, item).weight]

\* the support of an existing child left as it is
InsertItemNoIncrement(st, item, total_trans, rows) ==
    IF HasChildFor(st.tree, st.item_nodes, st.parent_nid, item)
    THEN [st EXCEPT !.parent_nid = MatchingChild(st.tree, st.item_nodes, st.parent_nid, item)]
    ELSE [tree       |-> (st.new_nid :> NewNode(item, st.parent_nid, total_trans, rows)) @@ st.tree,
          item_nodes |-> DictSet(st.item_nodes, item,
                                 Append(DictGetOr(st.item_nodes, item, <<>>), st.new_nid)),
          new_nid    |-> st.new_nid + 1,
          parent_nid |-> st.new_nid]

\* the list of the item overwritten by the new nid instead of extended
InsertItemIndexOverwritten(st, item, total_trans, rows) ==
    IF HasChildFor(st.tree, st.item_nodes, st.parent_nid, item)
    THEN LET child == MatchingChild(st.tree, st.item_nodes, st.parent_nid, item)
         IN  [st EXCEPT !.parent_nid = child,
                        !.tree = [st.tree EXCEPT ![child].freq = RatAdd(@, R(1, total_trans))]]
    ELSE [tree       |-> (st.new_nid :> NewNode(item, st.parent_nid, total_trans, rows)) @@ st.tree,
          item_nodes |-> DictSet(st.item_nodes, item, <<st.new_nid>>),
          new_nid    |-> st.new_nid + 1,
          parent_nid |-> st.new_nid]

\* body of "for item in ti" on the builder state st = [tree, item_nodes, new_nid, parent_nid]
InsertItem(st, item, total_trans, rows) ==
    IF HasChildFor(st.tree, st.item_nodes, st.parent_nid, item)
    THEN LET child == MatchingChild(st.tree, st.item_nodes, st.parent_nid, item)
         IN  [st EXCEPT !.parent_nid = child,
                        !.tree = [st.tree EXCEPT ![child].freq = RatAdd(@, R(1, total_trans))]]
    ELSE [tree       |-> (st.new_nid :> NewNode(item, st.parent_nid, total_trans, rows)) @@ st.tree,
          item_nodes |-> DictSet(st.item_nodes, item,
                                 Append(DictGetOr(st.item_nodes, item, <<>>), st.new_nid)),
          new_nid    |-> st.new_nid + 1,
          parent_nid |-> st.new_nid]

\* the index of the previous call kept (item_nodes not rebound to {})
EmptyTreeStaleIndex ==
    [tree |-> (RootNid :> RootNode), item_nodes |-> item_nodes,
     new_nid |-> RootNid + 1, parent_nid |-> RootNid]

\* the state after "init the tree"
EmptyTree ==
    [tree |-> (RootNid :> RootNode), item_nodes |-> <<>>,
     new_nid |-> RootNid + 1, parent_nid |-> RootNid]

\* "for item in ti" on the builder state
RECURSIVE InsertItems(_, _, _, _)
InsertItems(st, items, total_trans, rows) ==
    IF items = <<>> THEN st
    ELSE InsertItems(InsertItem(st, Head(items), total_trans, rows),
                     Tail(items), total_trans, rows)

\* "for ti in trans_db" over the transactions still to insert
RECURSIVE InsertTransactions(_, _, _, _)
InsertTransactions(st, db, total_trans, rows) ==
    IF db = <<>> THEN st
    ELSE InsertTransactions(
            InsertItems([st EXCEPT !.parent_nid = RootNid],
                        order_transaction(Head(db), rows), total_trans, rows),
            Tail(db), total_trans, rows)

\* the whole call: the builder state when construct_fptree returns
construct_fptree(db, rows) == InsertTransactions(EmptyTree, db, Len(db), rows)

-----------------------------------------------------------------------------
(* get_branch, get_condition_tree *)

\* the while loop of get_branch, at ancestor nid
RECURSIVE BranchWalk(_, _, _, _, _)
BranchWalk(t, leaf_tag, pattern_frequency, nid, branch) ==
    IF t[nid].parent = NoNid THEN branch
    ELSE BranchWalk(t, leaf_tag, pattern_frequency, t[nid].parent,
                    IF Prefix2(leaf_tag) # Prefix2(t[nid].tag)
                    THEN DictSet(branch, t[nid].tag, pattern_frequency)
                    ELSE branch)

\* the support of the parent recorded instead of the support of the node
get_branch_parent_freq(t, nid) ==
    BranchWalk(t, t[nid].tag, t[t[nid].parent].freq, t[nid].parent, <<>>)

get_branch(t, nid) ==
    BranchWalk(t, t[nid].tag, t[nid].freq, t[nid].parent, <<>>)

\* Counter.__iadd__: add the counts of other, keep the positive ones
RECURSIVE CounterAddAll(_, _)
CounterAddAll(c, other) ==
    IF other = <<>> THEN c
    ELSE CounterAddAll(
            DictSet(c, Head(other).key, RatAdd(DictGetOr(c, Head(other).key, Zero), Head(other).val)),
            Tail(other))

CounterIAdd(c, other) ==
    SelectSeq(CounterAddAll(c, other), LAMBDA e : RatLess(Zero, e.val))

RECURSIVE CondTreeLoop(_, _, _)
CondTreeLoop(t, nids, cond_tree) ==
    IF nids = <<>> THEN cond_tree
    ELSE CondTreeLoop(t, Tail(nids), CounterIAdd(cond_tree, get_branch(t, Head(nids))))

get_condition_tree(item, t, nodes) ==
    CondTreeLoop(t, DictGet(nodes, item), <<>>)

-----------------------------------------------------------------------------
(* get_rule, get_rules_metrics *)

\* the lift divided by the frequency of the body instead of the head
get_rule_lift_by_body(pattern_freq, body_row, head_row) ==
    LET confidence == RatDiv(pattern_freq, body_row.freq)
        lift       == RatDiv(confidence, body_row.freq)
    IN  [body |-> body_row.item, head |-> head_row.item,
         conf |-> confidence, lift |-> lift, cover |-> body_row.freq]

\* the confidence divided by the frequency of the head instead of the body
get_rule_conf_by_head(pattern_freq, body_row, head_row) ==
    LET confidence == RatDiv(pattern_freq, head_row.freq)
        lift       == RatDiv(confidence, head_row.freq)
    IN  [body |-> body_row.item, head |-> head_row.item,
         conf |-> confidence, lift |-> lift, cover |-> body_row.freq]

get_rule(pattern_freq, body_row, head_row) ==
    LET confidence == RatDiv(pattern_freq, body_row.freq)
        lift       == RatDiv(confidence, head_row.freq)
    IN  [body |-> body_row.item, head |-> head_row.item,
         conf |-> confidence, lift |-> lift, cover |-> body_row.freq]

\* "for parent_item in cond_tree.keys()" for one item
RECURSIVE RulesOfItem(_, _, _)
RulesOfItem(item, cond_tree, rows) ==
    IF cond_tree = <<>> THEN <<>>
    ELSE LET parent_row == RowOf(rows, Head(cond_tree).key)
             item_row   == RowOf(rows, item)
             parent_U_item_freq == Head(cond_tree).val
         IN  <<get_rule(parent_U_item_freq, parent_row, item_row),
               get_rule(parent_U_item_freq, item_row, parent_row)>>
             \o RulesOfItem(item, Tail(cond_tree), rows)

\* "for item in list(items_metrics['item'][1:])"
RECURSIVE RulesLoop(_, _, _, _)
RulesLoop(items, t, nodes, rows) ==
    IF items = <<>> THEN <<>>
    ELSE RulesOfItem(Head(items), get_condition_tree(Head(items), t, nodes), rows)
         \o RulesLoop(Tail(items), t, nodes, rows)

\* items_metrics['item'][1:]
HeadItems(rows) == IF rows = <<>> THEN <<>> ELSE Tail(ItemColumn(rows))

get_rules_metrics(t, nodes, rows) == RulesLoop(HeadItems(rows), t, nodes, rows)

-----------------------------------------------------------------------------
(* filter_confidence_and_lift *)

\* the direction of the item table: coverage descending
RuleBeforeDescending(r1, r2) ==
    \/ RatLess(r2.cover, r1.cover)
    \/ (r1.cover = r2.cover /\ StrLess(r1.body, r2.body))

\* sort_values(by=['cover', 'body'], ascending=[True, True])
RuleBefore(r1, r2) ==
    \/ RatLess(r1.cover, r2.cover)
    \/ (r1.cover = r2.cover /\ StrLess(r1.body, r2.body))

filter_confidence_and_lift(rules, min_conf, min_lift) ==
    LET by_conf == SelectSeq(rules, LAMBDA r : PassesThreshold(r.conf, min_conf))
        by_lift == SelectSeq(by_conf, LAMBDA r : PassesThreshold(r.lift, min_lift))
    IN  StableSort(by_lift,
            {p \in SeqToSet(by_lift) \X SeqToSet(by_lift) :
                RuleBefore(p[1], p[2])})

-----------------------------------------------------------------------------
(* The weighted variant, src/_scripts/wofptree.py.  Its operators carry the *)
(* prefix wofp_; its tables have the columns item and freq only.          *)

\* body of the loop of get_frequency: one occurrence of an item
wofp_FrequencyStep(rows, item, total_trans) ==
    IF \E i \in 1..Len(rows) : rows[i].item = item
    THEN LET i == CHOOSE k \in 1..Len(rows) : rows[k].item = item
         IN  [rows EXCEPT ![i].freq = RatAdd(@, R(1, total_trans))]
    ELSE Append(rows, [item |-> item, freq |-> R(1, total_trans)])

RECURSIVE wofp_FrequencyLoop(_, _, _)
wofp_FrequencyLoop(rows, occurrences, total_trans) ==
    IF occurrences = <<>> THEN rows
    ELSE wofp_FrequencyLoop(wofp_FrequencyStep(rows, Head(occurrences), total_trans),
                            Tail(occurrences), total_trans)

wofp_get_frequency(db) == wofp_FrequencyLoop(<<>>, Flatten(db), Len(db))

\* freq_items[freq_items['freq'] > min_item_freq], then the sort of the item table
wofp_filter_frequency(rows, min_freq) ==
    LET kept == SelectSeq(rows, LAMBDA r : RatLess(min_freq, r.freq))
    IN  StableSort(kept,
            {p \in SeqToSet(kept) \X SeqToSet(kept) : ItemRowBefore(p[1], p[2])})

\* the same three lines as order_transaction of fptree.py
wofp_order_transaction(t, rows) == order_transaction(t, rows)

\* NodeData(1/total_trans, weight_items[item])
wofp_NewNode(item, parent, total_trans, weights) ==
    [tag |-> item, parent |-> parent, freq |-> R(1, total_trans), weight |-> weights[item]]

\* body of "for item in t" on the builder state
wofp_InsertItem(st, item, total_trans, weights) ==
    IF ~HasChildFor(st.tree, st.item_nodes, st.parent_nid, item)
    THEN [tree       |-> (st.new_nid :> wofp_NewNode(item, st.parent_nid, total_trans, weights))
                         @@ st.tree,
          item_nodes |-> DictSet(st.item_nodes, item,
                                 Append(DictGetOr(st.item_nodes, item, <<>>), st.new_nid)),
          new_nid    |-> st.new_nid + 1,
          parent_nid |-> st.new_nid]
    ELSE LET child == MatchingChild(st.tree, st.item_nodes, st.parent_nid, item)
         IN  [st EXCEPT !.parent_nid = child,
                        !.tree = [st.tree EXCEPT ![child].freq = RatAdd(@, R(1, total_trans))]]

RECURSIVE wofp_InsertItems(_, _, _, _)
wofp_InsertItems(st, items, total_trans, weights) ==
    IF items = <<>> THEN st
    ELSE wofp_InsertItems(wofp_InsertItem(st, Head(items), total_trans, weights),
                          Tail(items), total_trans, weights)

RECURSIVE wofp_InsertTransactions(_, _, _, _, _)
wofp_InsertTransactions(st, db, total_trans, rows, weights) ==
    IF db = <<>> THEN st
    ELSE wofp_InsertTransactions(
            wofp_InsertItems([st EXCEPT !.parent_nid = RootNid],
                             wofp_order_transaction(Head(db), rows), total_trans, weights),
            Tail(db), total_trans, rows, weights)

\* the builder state when construct_fptree returns; item_nodes is an
\* OrderedDict, its keys in the order of their first node
wofp_construct_fptree(db, rows, weights) ==
    wofp_InsertTransactions(
        [tree |-> (RootNid :> RootNode), item_nodes |-> <<>>,
         new_nid |-> RootNid + 1, parent_nid |-> RootNid],
        db, Len(db), rows, weights)

\* the while loop of get_branch: the ancestors of weight >= min_item_weight
RECURSIVE wofp_BranchWalk(_, _, _, _, _)
wofp_BranchWalk(t, min_weight, pattern_frequency, nid, branch) ==
    IF t[nid].parent = NoNid THEN branch
    ELSE wofp_BranchWalk(t, min_weight, pattern_frequency, t[nid].parent,
                         IF RatGeq(t[nid].weight, min_weight)
                         THEN DictSet(branch, t[nid].tag, pattern_frequency)
                         ELSE branch)

wofp_get_branch(t, nid, min_weight) ==
    wofp_BranchWalk(t, min_weight, t[nid].freq, t[nid].parent, <<>>)

RECURSIVE wofp_CondTreeLoop(_, _, _, _)
wofp_CondTreeLoop(t, nids, min_weight, cond_tree) ==
    IF nids = <<>> THEN cond_tree
    ELSE wofp_CondTreeLoop(t, Tail(nids), min_weight,
                           CounterIAdd(cond_tree, wofp_get_branch(t, Head(nids), min_weight)))

wofp_get_condition_tree(item, t, nodes, min_weight) ==
    wofp_CondTreeLoop(t, DictGet(nodes, item), min_weight, <<>>)

\* round(x, 2) for x >= 0, on the exact value: the nearest multiple of 1/100,
\* a tie going to the even one
Round2(x) ==
    LET a == x.n * 100
        q == a \div x.d
        r == a % x.d
    IN  IF 2 * r < x.d THEN R(q, 100)
        ELSE IF 2 * r > x.d THEN R(q + 1, 100)
        ELSE IF q % 2 = 0 THEN R(q, 100) ELSE R(q + 1, 100)

\* "for parent_item in cond_tree.keys()" for one item: the patterns
\* "parent_item => item" added to frequent_pattern
RECURSIVE wofp_PatternsOfItem(_, _, _, _, _)
wofp_PatternsOfItem(frequent_pattern, item, cond_tree, rows, min_conf) ==
    IF cond_tree = <<>> THEN frequent_pattern
    ELSE LET parent_item == Head(cond_tree).key
             parent_freq == RowOf(rows, parent_item).freq
             item_freq   == RowOf(rows, item).freq
             confidence  == RatDiv(Head(cond_tree).val, parent_freq)
             lift        == RatDiv(confidence, item_freq)
             added       ==
                 IF RatGeq(confidence, min_conf) /\ RatLess(R(1, 1), lift)
                 THEN DictSet(frequent_pattern, <<parent_item, item>>,
                              [confidence |-> Round2(confidence),
                               lift       |-> Round2(lift),
                               coverage   |-> Round2(parent_freq)])
                 ELSE frequent_pattern
         IN  wofp_PatternsOfItem(added, item, Tail(cond_tree), rows, min_conf)

\* "for item in item_nodes.keys()"
RECURSIVE wofp_PatternsLoop(_, _, _, _, _, _, _)
wofp_PatternsLoop(frequent_pattern, items, t, nodes, rows, min_weight, min_conf) ==
    IF items = <<>> THEN frequent_pattern
    ELSE wofp_PatternsLoop(
            wofp_PatternsOfItem(frequent_pattern, Head(items),
                                wofp_get_condition_tree(Head(items), t, nodes, min_weight),
                                rows, min_conf),
            Tail(items), t, nodes, rows, min_weight, min_conf)

\* item_nodes.popitem(last=False) on a non-empty OrderedDict: the first
\* entry is removed from the dict
popitem(nodes) == Tail(nodes)

\* get_association_rules on a non-empty item_nodes: the dict it returns and
\* item_nodes as the call leaves it
wofp_get_association_rules(t, nodes, rows, min_weight, min_conf) ==
    LET popped == popitem(nodes)
    IN  [frequent_pattern |-> wofp_PatternsLoop(<<>>, DictKeys(popped), t, popped, rows,
                                                min_weight, min_conf),
         item_nodes |-> popped]

-----------------------------------------------------------------------------
(* Inputs *)

\* item ids "GO1", "GO2", "HP1", "MP1" as character codes: the first two
\* share their first two characters
GO1 == <<7, 15, 1>>
GO2 == <<7, 15, 2>>
HP1 == <<8, 16, 1>>
MP1 == <<13, 16, 1>>
Items == {GO1, GO2, HP1, MP1}
\* the items of one collection are taken from one of these sets
ItemSets == {{GO1, GO2, HP1}, {GO1, HP1, MP1}}

SeqsUpTo(S, n) == UNION {[1..k -> S] : k \in 0..n}

NoRepeat(t) == \A i, j \in 1..Len(t) : i # j => t[i] # t[j]
ById(t) == \A i, j \in 1..Len(t) : i < j => ~StrLess(t[j], t[i])
ItemsOf(db) == UNION {SeqToSet(db[i]) : i \in 1..Len(db)}

\* transactions: lists of at most MaxLen items, written in id order, an item
\* possibly listed several times
Transactions == {t \in SeqsUpTo(Items, MaxLen) : ById(t)}

\* collections of at most MaxTrans transactions; the ones with a repeated item
\* are explored up to MaxTrans - 1 transactions
Collections ==
    {db \in SeqsUpTo(Transactions, MaxTrans) :
        /\ \E S \in ItemSets : ItemsOf(db) \subseteq S
        /\ Len(db) = MaxTrans => \A i \in 1..Len(db) : NoRepeat(db[i])}

Weights == {R(k, MaxWeight) : k \in 1..MaxWeight}

ItemFreqThresholds == {R(-2, 3), R(1, 3), R(2, 3)}
ItemWeightThresholds == {R(-1, 2), R(1, 1)}
RuleConfThresholds == {R(-1, 2), R(1, 2)}
RuleLiftThresholds == {R(-1, 1), R(0, 1), R(1, 1)}

\* value of a variable not yet assigned
Unset == <<>>

\* The collection of the usage examples (docstrings of fptree.py): item ids
\* "A", "B", "C", "D", "E", "Y" as character codes
ItemA == <<1>>
ItemB == <<2>>
ItemC == <<3>>
ItemD == <<4>>
ItemE == <<5>>
ItemY == <<25>>

fixture_trans ==
    << <<ItemA, ItemC, ItemB, ItemD>>,
       <<ItemB, ItemE, ItemD>>,
       <<ItemE, ItemB, ItemA>>,
       <<ItemY, ItemC, ItemD>>,
       <<ItemD, ItemA>> >>

fixture_weights ==
    (ItemA :> R(1, 2)) @@ (ItemB :> R(3, 10)) @@ (ItemC :> R(9, 10)) @@
    (ItemD :> R(7, 10)) @@ (ItemE :> R(1, 10)) @@ (ItemY :> R(1, 1))

\* thresholds given with the collection of the usage examples: the ones of
\* the examples (0.25 and 0.5), others inside their range, and values whose
\* magnitude is above 1
FixtureFreqThresholds == {R(1, 4), R(1, 2), R(-1, 2), R(3, 2), R(-3, 2)}
FixtureWeightThresholds == {R(1, 2), R(-1, 2), R(3, 2)}
FixtureConfThresholds == {R(1, 2), R(-1, 2), R(3, 2)}
FixtureLiftThresholds == {R(1, 1), R(-3, 2)}

\* the thresholds the caller may give with the collection db
FreqThresholdsFor(db) ==
    IF db = fixture_trans THEN FixtureFreqThresholds ELSE ItemFreqThresholds
WeightThresholdsFor(db) ==
    IF db = fixture_trans THEN FixtureWeightThresholds ELSE ItemWeightThresholds
ConfThresholdsFor(db) ==
    IF db = fixture_trans THEN FixtureConfThresholds ELSE RuleConfThresholds
LiftThresholdsFor(db) ==
    IF db = fixture_trans THEN FixtureLiftThresholds ELSE RuleLiftThresholds

-----------------------------------------------------------------------------
(* The pipeline *)

inputs == <<trans_db, item_weights>>
item_thresholds == <<min_item_freq, min_item_weight>>
rule_thresholds == <<min_rule_conf, min_rule_lift>>
builder == <<tree, item_nodes, new_nid, t_idx, ti, parent_nid>>
analysis == <<transaction_matrix, data, params, associations,
              associations_counter, printed>>
\* the state of the other programs of the repository
prompt == <<mini, maxi, typed, frames, var, console>>
programs == <<analysis, writers, overlap, prompt>>
runs == <<run, first_run, rule_calls, tasks, programs>>

\* _get_associations is not running
NoAnalysis ==
    /\ transaction_matrix = Unset /\ data = Unset /\ params = Unset
    /\ associations = Unset /\ associations_counter = Unset /\ printed = Unset

\* no insertion runs beside the loop of construct_fptree
NoWriters == writers = Unset /\ overlap = FALSE

\* get_numeric_input has not been called
NoPrompt ==
    /\ mini = Unset /\ maxi = Unset /\ typed = Unset
    /\ frames = Unset /\ var = Unset /\ console = Unset

OtherProgramsIdle == NoAnalysis /\ NoWriters /\ NoPrompt

Init ==
    /\ pc = "get_items_metrics"
    /\ trans_db \in Collections
    /\ item_weights \in [ItemsOf(trans_db) -> Weights]
    /\ min_item_freq = Unset /\ min_item_weight = Unset
    /\ min_rule_conf = Unset /\ min_rule_lift = Unset
    /\ all_items = Unset /\ items_metrics = Unset
    /\ tree = Unset /\ item_nodes = Unset /\ new_nid = RootNid
    /\ t_idx = 0 /\ ti = <<>> /\ parent_nid = RootNid
    /\ all_rules = Unset /\ rules_metrics = Unset
    /\ run = 1 /\ first_run = Unset
    /\ raised = Unset
    /\ rule_calls = 0
    /\ tasks = Unset
    /\ OtherProgramsIdle

GetItemsMetrics ==
    /\ pc = "get_items_metrics"
    /\ IF Unweighted(trans_db, item_weights) # {}
       THEN /\ pc' = "KeyError"
            /\ raised' = RaisedKey(trans_db, item_weights)
            /\ UNCHANGED all_items
       ELSE /\ all_items' = get_items_metrics(trans_db, item_weights)
            /\ pc' = "filter_frequency_and_weight"
            /\ UNCHANGED raised
    /\ UNCHANGED <<inputs, item_thresholds, rule_thresholds, items_metrics, builder,
                   all_rules, rules_metrics, runs>>

\* the thresholds are chosen by the caller in the first run and given again,
\* unchanged, in a second run
FilterFrequencyAndWeight ==
    /\ pc = "filter_frequency_and_weight"
    /\ \E mf \in FreqThresholdsFor(trans_db), mw \in WeightThresholdsFor(trans_db) :
        /\ run > 1 => (mf = min_item_freq /\ mw = min_item_weight)
        /\ min_item_freq' = mf
        /\ min_item_weight' = mw
        /\ items_metrics' = filter_frequency_and_weight(all_items, mf, mw)
    /\ pc' = "construct_fptree"
    /\ UNCHANGED <<inputs, rule_thresholds, all_items, builder, all_rules,
                   rules_metrics, runs, raised>>

\* construct_fptree up to the loop over the transactions
InitTree ==
    /\ pc = "construct_fptree"
    /\ tree' = EmptyTree.tree
    /\ item_nodes' = EmptyTree.item_nodes
    /\ new_nid' = EmptyTree.new_nid
    /\ parent_nid' = EmptyTree.parent_nid
    /\ t_idx' = 0 /\ ti' = <<>>
    /\ pc' = "for_ti"
    /\ UNCHANGED <<inputs, item_thresholds, rule_thresholds, all_items, items_metrics,
                   all_rules, rules_metrics, runs, raised>>

\* "for ti in trans_db": parent_nid = 0; ti = order_transaction(ti, items_metrics)
NextTransaction ==
    /\ pc = "for_ti"
    /\ t_idx < Len(trans_db)
    /\ t_idx' = t_idx + 1
    /\ parent_nid' = RootNid
    /\ ti' = order_transaction(trans_db[t_idx + 1], items_metrics)
    /\ pc' = IF ti' = <<>> THEN "for_ti" ELSE "for_item"
    /\ UNCHANGED <<inputs, item_thresholds, rule_thresholds, all_items, items_metrics,
                   tree, item_nodes, new_nid, all_rules, rules_metrics, runs, raised>>

\* "for item in ti": one item of the ordered transaction
InsertItemStep ==
    /\ pc = "for_item"
    /\ LET st == InsertItem([tree |-> tree, item_nodes |-> item_nodes,
                             new_nid |-> new_nid, parent_nid |-> parent_nid],
                            Head(ti), Len(trans_db), items_metrics)
       IN  /\ tree' = st.tree
           /\ item_nodes' = st.item_nodes
           /\ new_nid' = st.new_nid
           /\ parent_nid' = st.parent_nid
    /\ ti' = Tail(ti)
    /\ pc' = IF ti' = <<>> THEN "for_ti" ELSE "for_item"
    /\ UNCHANGED <<inputs, item_thresholds, rule_thresholds, all_items, items_metrics,
                   t_idx, all_rules, rules_metrics, runs, raised>>

\* construct_fptree is about to return tree, item_nodes
TreeBuilt == pc = "for_ti" /\ t_idx = Len(trans_db)

GetRulesMetrics ==
    /\ TreeBuilt
    /\ all_rules' = get_rules_metrics(tree, item_nodes, items_metrics)
    /\ pc' = "filter_confidence_and_lift"
    /\ UNCHANGED <<inputs, item_thresholds, rule_thresholds, all_items, items_metrics,
                   builder, rules_metrics, runs, raised>>

\* the column name 'conf' as character codes
ConfColumn == <<3, 15, 14, 6>>

\* pd.DataFrame([]) has no column: rules_metrics['conf'] raises KeyError
FilterConfidenceAndLift ==
    /\ pc = "filter_confidence_and_lift"
    /\ \E mc \in ConfThresholdsFor(trans_db), ml \in LiftThresholdsFor(trans_db) :
        /\ run > 1 => (mc = min_rule_conf /\ ml = min_rule_lift)
        /\ min_rule_conf' = mc
        /\ min_rule_lift' = ml
        /\ IF all_rules = <<>>
           THEN pc' = "KeyError" /\ raised' = ConfColumn /\ UNCHANGED rules_metrics
           ELSE /\ rules_metrics' = filter_confidence_and_lift(all_rules, mc, ml)
                /\ pc' = "done"
                /\ UNCHANGED raised
    /\ UNCHANGED <<inputs, item_thresholds, all_items, items_metrics, builder,
                   all_rules, runs>>

Next ==
    \/ GetItemsMetrics
    \/ FilterFrequencyAndWeight
    \/ InitTree
    \/ NextTransaction
    \/ InsertItemStep
    \/ GetRulesMetrics
    \/ FilterConfidenceAndLift

Spec == Init /\ [][Next]_vars

\* The caller runs the pipeline a second time on the same transactions,
\* weights and thresholds.  What the first run returned is kept in first_run;
\* the objects of the first run are still bound to their names when the
\* second run starts.
Rerun ==
    /\ pc \in {"done", "KeyError"}
    /\ run = 1
    /\ first_run' = [pc |-> pc, items_metrics |-> items_metrics, tree |-> tree,
                     item_nodes |-> item_nodes, rules_metrics |-> rules_metrics]
    /\ run' = 2
    /\ raised' = Unset
    /\ UNCHANGED <<rule_calls, tasks, programs>>
    /\ pc' = "get_items_metrics"
    /\ UNCHANGED <<inputs, item_thresholds, rule_thresholds, all_items, items_metrics,
                   builder, all_rules, rules_metrics>>

NextRerun == Next \/ Rerun

\* weights of the collections that are run twice
RerunWeights(db) == [i \in ItemsOf(db) |-> IF i = GO1 THEN R(1, MaxWeight) ELSE R(1, 1)]

InitRerun == Init /\ item_weights = RerunWeights(trans_db)

SpecRerun == InitRerun /\ [][NextRerun]_vars

\* The pipeline on the collection and the weights of the usage examples
InitFixture ==
    /\ pc = "get_items_metrics"
    /\ trans_db = fixture_trans
    /\ item_weights = fixture_weights
    /\ min_item_freq = Unset /\ min_item_weight = Unset
    /\ min_rule_conf = Unset /\ min_rule_lift = Unset
    /\ all_items = Unset /\ items_metrics = Unset
    /\ tree = Unset /\ item_nodes = Unset /\ new_nid = RootNid
    /\ t_idx = 0 /\ ti = <<>> /\ parent_nid = RootNid
    /\ all_rules = Unset /\ rules_metrics = Unset
    /\ run = 1 /\ first_run = Unset
    /\ raised = Unset
    /\ rule_calls = 0
    /\ tasks = Unset
    /\ OtherProgramsIdle

SpecFixture == InitFixture /\ [][Next]_vars

\* The pipeline with a weight mapping that has an entry for some of the
\* items of the collection only
InitMissing ==
    /\ pc = "get_items_metrics"
    /\ trans_db \in Collections
    /\ \E S \in SUBSET ItemsOf(trans_db) :
          item_weights = [i \in S |-> RerunWeights(trans_db)[i]]
    /\ min_item_freq = Unset /\ min_item_weight = Unset
    /\ min_rule_conf = Unset /\ min_rule_lift = Unset
    /\ all_items = Unset /\ items_metrics = Unset
    /\ tree = Unset /\ item_nodes = Unset /\ new_nid = RootNid
    /\ t_idx = 0 /\ ti = <<>> /\ parent_nid = RootNid
    /\ all_rules = Unset /\ rules_metrics = Unset
    /\ run = 1 /\ first_run = Unset
    /\ raised = Unset
    /\ rule_calls = 0
    /\ tasks = Unset
    /\ OtherProgramsIdle

SpecMissing == InitMissing /\ [][Next]_vars

\* construct_fptree takes the collection as an argument of its own: here the
\* caller gives it the collection of get_items_metrics with one more
\* transaction, which lists an item that get_items_metrics never met.
AppendTransaction ==
    /\ pc = "construct_fptree"
    /\ Len(trans_db) < MaxTrans
    /\ ItemsOf(trans_db) = SeqToSet(ItemColumn(all_items))
    /\ \E t \in Transactions :
          /\ NoRepeat(t)
          /\ \E S \in ItemSets : ItemsOf(trans_db) \cup SeqToSet(t) \subseteq S
          /\ \E x \in SeqToSet(t) : x \notin ItemsOf(trans_db)
          /\ trans_db' = Append(trans_db, t)
    /\ UNCHANGED <<pc, item_weights, item_thresholds, rule_thresholds, all_items,
                   items_metrics, builder, all_rules, rules_metrics, runs, raised>>

NextForeign == Next \/ AppendTransaction

InitForeign == InitRerun /\ \A i \in 1..Len(trans_db) : NoRepeat(trans_db[i])

SpecForeign == InitForeign /\ [][NextForeign]_vars

-----------------------------------------------------------------------------
(* get_rules_metrics as one task per item: the body of its loop "for item   *)
(* in list(items_metrics['item'][1:])" run by a task of its own for each    *)
(* item, the steps of the tasks interleaved.  A task has the locals of the  *)
(* loop body: the nids still to visit, cond_tree, the keys of cond_tree     *)
(* still to visit, and its own list of rules.                               *)

\* the Counter of the first task of the table, whoever the task is
AccumulatorOfFirstTask(ts, item) == ts[Head(HeadItems(items_metrics))].cond_tree

\* the Counter that the task of the item accumulates into
AccumulatorOf(ts, item) == ts[item].cond_tree

\* one turn of "for nid in item_nodes[item]: cond_tree += Counter(get_branch(fptree, nid))"
BranchStep(ts, item) ==
    [ts EXCEPT ![item].cond_tree =
                   CounterIAdd(AccumulatorOf(ts, item), get_branch(tree, Head(ts[item].nids))),
               ![item].nids = Tail(@)]

\* one turn of "for parent_item in cond_tree.keys()": two rules appended
RuleStep(ts, item) ==
    LET parent_row == RowOf(items_metrics, Head(ts[item].keys))
        item_row   == RowOf(items_metrics, item)
        parent_U_item_freq == DictGet(ts[item].cond_tree, Head(ts[item].keys))
    IN  [ts EXCEPT ![item].out = @ \o <<get_rule(parent_U_item_freq, parent_row, item_row),
                                        get_rule(parent_U_item_freq, item_row, parent_row)>>,
                   ![item].keys = Tail(@)]

\* the lists of the tasks put end to end, in the order of the items
RECURSIVE ConcatOut(_, _)
ConcatOut(items, ts) ==
    IF items = <<>> THEN <<>> ELSE ts[Head(items)].out \o ConcatOut(Tail(items), ts)

StartTasks ==
    /\ TreeBuilt
    /\ tasks' = [item \in SeqToSet(HeadItems(items_metrics)) |->
                    [pc |-> "branch", nids |-> DictGet(item_nodes, item),
                     cond_tree |-> <<>>, keys |-> <<>>, out |-> <<>>]]
    /\ pc' = "tasks"
    /\ UNCHANGED <<inputs, item_thresholds, rule_thresholds, all_items, items_metrics,
                   builder, all_rules, rules_metrics, run, first_run, rule_calls, raised,
                   programs>>

TaskBranch ==
    /\ pc = "tasks"
    /\ \E item \in DOMAIN tasks :
          /\ tasks[item].pc = "branch"
          /\ tasks' = IF tasks[item].nids = <<>>
                      THEN [tasks EXCEPT ![item].pc = "rules",
                                         ![item].keys = DictKeys(tasks[item].cond_tree)]
                      ELSE BranchStep(tasks, item)
    /\ UNCHANGED <<pc, inputs, item_thresholds, rule_thresholds, all_items, items_metrics,
                   builder, all_rules, rules_metrics, run, first_run, rule_calls, raised,
                   programs>>

TaskRule ==
    /\ pc = "tasks"
    /\ \E item \in DOMAIN tasks :
          /\ tasks[item].pc = "rules"
          /\ tasks' = IF tasks[item].keys = <<>>
                      THEN [tasks EXCEPT ![item].pc = "finished"]
                      ELSE RuleStep(tasks, item)
    /\ UNCHANGED <<pc, inputs, item_thresholds, rule_thresholds, all_items, items_metrics,
                   builder, all_rules, rules_metrics, run, first_run, rule_calls, raised,
                   programs>>

\* rules_metrics = pd.DataFrame(rules_metrics), once every task is over
JoinTasks ==
    /\ pc = "tasks"
    /\ \A item \in DOMAIN tasks : tasks[item].pc = "finished"
    /\ all_rules' = ConcatOut(HeadItems(items_metrics), tasks)
    /\ pc' = "filter_confidence_and_lift"
    /\ UNCHANGED <<inputs, item_thresholds, rule_thresholds, all_items, items_metrics,
                   builder, rules_metrics, runs, raised>>

NextTasks ==
    \/ GetItemsMetrics
    \/ FilterFrequencyAndWeight
    \/ InitTree
    \/ NextTransaction
    \/ InsertItemStep
    \/ StartTasks
    \/ TaskBranch
    \/ TaskRule
    \/ JoinTasks
    \/ FilterConfidenceAndLift

\* collections without a repeated item, every item of weight 1
InitTasks ==
    /\ Init
    /\ \A i \in 1..Len(trans_db) : NoRepeat(trans_db[i])
    /\ \A item \in DOMAIN item_weights : item_weights[item] = R(1, 1)

SpecTasks == InitTasks /\ [][NextTasks]_vars

-----------------------------------------------------------------------------
(* The pipeline of the weighted variant: mine_association_rules *)

InitWeighted ==
    /\ pc = "wofp_get_frequency"
    /\ trans_db \in Collections
    /\ item_weights = RerunWeights(trans_db)
    /\ min_item_freq = Unset /\ min_item_weight = Unset
    /\ min_rule_conf = Unset /\ min_rule_lift = Unset
    /\ all_items = Unset /\ items_metrics = Unset
    /\ tree = Unset /\ item_nodes = Unset /\ new_nid = RootNid
    /\ t_idx = 0 /\ ti = <<>> /\ parent_nid = RootNid
    /\ all_rules = Unset /\ rules_metrics = Unset
    /\ run = 1 /\ first_run = Unset
    /\ raised = Unset
    /\ rule_calls = 0
    /\ tasks = Unset
    /\ OtherProgramsIdle

WofpGetFrequency ==
    /\ pc = "wofp_get_frequency"
    /\ all_items' = wofp_get_frequency(trans_db)
    /\ pc' = "wofp_filter_frequency"
    /\ UNCHANGED <<inputs, item_thresholds, rule_thresholds, items_metrics, builder,
                   all_rules, rules_metrics, runs, raised>>

WofpFilterFrequency ==
    /\ pc = "wofp_filter_frequency"
    /\ \E mf \in FreqThresholdsFor(trans_db) :
          /\ min_item_freq' = mf
          /\ items_metrics' = wofp_filter_frequency(all_items, mf)
    /\ pc' = "wofp_construct_fptree"
    /\ UNCHANGED <<inputs, min_item_weight, rule_thresholds, all_items, builder,
                   all_rules, rules_metrics, runs, raised>>

\* construct_fptree of wofptree.py, the whole call
WofpConstructFptree ==
    /\ pc = "wofp_construct_fptree"
    /\ LET st == wofp_construct_fptree(trans_db, items_metrics, item_weights)
       IN  /\ tree' = st.tree
           /\ item_nodes' = st.item_nodes
           /\ new_nid' = st.new_nid
           /\ parent_nid' = st.parent_nid
    /\ t_idx' = Len(trans_db)
    /\ pc' = "wofp_get_association_rules"
    /\ UNCHANGED <<inputs, item_thresholds, rule_thresholds, all_items, items_metrics,
                   ti, all_rules, rules_metrics, runs, raised>>

\* the message of the KeyError of popitem on an empty dict,
\* "dictionary is empty", as character codes (0 for the space)
EmptyDictMessage ==
    <<4, 9, 3, 20, 9, 15, 14, 1, 18, 25, 0, 9, 19, 0, 5, 13, 16, 20, 25>>

\* get_association_rules(tree, item_nodes, freq_items, min_item_weight,
\* min_pattern_conf), called on the tree and the index that construct_fptree
\* returned; the caller may call it again with the same arguments.
WofpGetAssociationRules ==
    /\ pc = "wofp_get_association_rules"
    /\ rule_calls < MaxCalls
    /\ \E mw \in WeightThresholdsFor(trans_db), mc \in ConfThresholdsFor(trans_db) :
          /\ rule_calls > 0 => (mw = min_item_weight /\ mc = min_rule_conf)
          /\ min_item_weight' = mw
          /\ min_rule_conf' = mc
          /\ IF item_nodes = <<>>
             THEN /\ pc' = "KeyError"
                  /\ raised' = EmptyDictMessage
                  /\ UNCHANGED <<item_nodes, all_rules, rule_calls>>
             ELSE LET out == wofp_get_association_rules(tree, item_nodes, items_metrics,
                                                        mw, mc)
                  IN  /\ all_rules' = out.frequent_pattern
                      /\ item_nodes' = out.item_nodes
                      /\ rule_calls' = rule_calls + 1
                      /\ UNCHANGED <<pc, raised>>
    /\ UNCHANGED <<inputs, min_item_freq, min_rule_lift, all_items, items_metrics,
                   tree, new_nid, t_idx, ti, parent_nid, rules_metrics, run, first_run,
                   tasks, programs>>

NextWeighted ==
    \/ WofpGetFrequency
    \/ WofpFilterFrequency
    \/ WofpConstructFptree
    \/ WofpGetAssociationRules

SpecWeighted == InitWeighted /\ [][NextWeighted]_vars

-----------------------------------------------------------------------------
(* The body of "for ti in trans_db" of construct_fptree run by one writer    *)
(* per transaction on the same tree, index and new_nid, the steps of the    *)
(* writers interleaved.  A writer has the locals of the loop body: ti,      *)
(* parent_nid, children_nids and the support it loaded for "+=".  The steps *)
(* of a writer are the statements of the body; "freq += 1/total_trans" is a *)
(* load and a store.                                                        *)

Writers == 1..MaxWriters

\* the other writers that are in the middle of their insertion
Inserting(w) ==
    {v \in Writers \ {w} : writers[v].pc \notin {"start", "done", "DuplicatedNodeIdError"}}

\* a step of writer w that leaves its locals as the record next
WriterStep(w, next) ==
    /\ writers' = [writers EXCEPT ![w] = next]
    /\ overlap' = (overlap \/ Inserting(w) # {})

\* the statement that follows the last statement of "for item in ti"
AfterItem(w) == IF Tail(writers[w].ti) = <<>> THEN "done" ELSE "lookup"

\* the transactions that the loop of construct_fptree inserts itself, one
\* after the other, before the writers insert the last MaxWriters ones
SequentialInsertion ==
    /\ t_idx < Len(trans_db) - MaxWriters
    /\ NextTransaction

\* one writer for each of the transactions that are left
StartWriters ==
    /\ pc = "for_ti" /\ t_idx = Len(trans_db) - MaxWriters
    /\ writers' = [w \in Writers |->
                      [pc |-> "start", ti |-> <<>>, parent_nid |-> RootNid,
                       children_nids |-> {}, loaded |-> Zero]]
    /\ pc' = "writers"
    /\ UNCHANGED <<inputs, item_thresholds, rule_thresholds, all_items, items_metrics,
                   builder, all_rules, rules_metrics, run, first_run, rule_calls, tasks,
                   raised, analysis, overlap, prompt>>

\* parent_nid = 0; ti = order_transaction(ti, items_metrics)
WriterBegin(w) ==
    /\ pc = "writers" /\ writers[w].pc = "start"
    /\ LET ordered == order_transaction(trans_db[t_idx + w], items_metrics)
       IN  WriterStep(w, [writers[w] EXCEPT
                              !.parent_nid = RootNid,
                              !.ti = ordered,
                              !.pc = IF ordered = <<>> THEN "done" ELSE "lookup"])
    /\ UNCHANGED <<pc, inputs, item_thresholds, rule_thresholds, all_items, items_metrics,
                   builder, all_rules, rules_metrics, run, first_run, rule_calls, tasks,
                   raised, analysis, prompt>>

\* children_nids = tree.is_branch(parent_nid) and the test of the "if"
WriterLookup(w) ==
    /\ pc = "writers" /\ writers[w].pc = "lookup"
    /\ WriterStep(w, [writers[w] EXCEPT
                         !.children_nids = Children(tree, writers[w].parent_nid),
                         !.pc = IF HasChildFor(tree, item_nodes, writers[w].parent_nid,
                                               Head(writers[w].ti))
                                THEN "navigate" ELSE "register"])
    /\ UNCHANGED <<pc, inputs, item_thresholds, rule_thresholds, all_items, items_metrics,
                   builder, all_rules, rules_metrics, run, first_run, rule_calls, tasks,
                   raised, analysis, prompt>>

\* parent_nid = min(set(item_nodes[item]) & set(children_nids)) and the load
\* of tree[parent_nid].data.freq
WriterNavigate(w) ==
    /\ pc = "writers" /\ writers[w].pc = "navigate"
    /\ LET child == SetMin(SeqToSet(DictGet(item_nodes, Head(writers[w].ti)))
                           \cap writers[w].children_nids)
       IN  WriterStep(w, [writers[w] EXCEPT !.parent_nid = child,
                                            !.loaded = tree[child].freq,
                                            !.pc = "store"])
    /\ UNCHANGED <<pc, inputs, item_thresholds, rule_thresholds, all_items, items_metrics,
                   builder, all_rules, rules_metrics, run, first_run, rule_calls, tasks,
                   raised, analysis, prompt>>

\* the store of tree[parent_nid].data.freq
WriterStore(w) ==
    /\ pc = "writers" /\ writers[w].pc = "store"
    /\ tree' = [tree EXCEPT ![writers[w].parent_nid].freq =
                   RatAdd(writers[w].loaded, R(1, Len(trans_db)))]
    /\ WriterStep(w, [writers[w] EXCEPT !.ti = Tail(@), !.pc = AfterItem(w)])
    /\ UNCHANGED <<pc, inputs, item_thresholds, rule_thresholds, all_items, items_metrics,
                   item_nodes, new_nid, t_idx, ti, parent_nid, all_rules, rules_metrics,
                   run, first_run, rule_calls, tasks, raised, analysis, prompt>>

\* item_nodes[item] = item_nodes.get(item, []) + [new_nid]
WriterRegister(w) ==
    /\ pc = "writers" /\ writers[w].pc = "register"
    /\ item_nodes' = DictSet(item_nodes, Head(writers[w].ti),
                             Append(DictGetOr(item_nodes, Head(writers[w].ti), <<>>),
                                    new_nid))
    /\ WriterStep(w, [writers[w] EXCEPT !.pc = "create"])
    /\ UNCHANGED <<pc, inputs, item_thresholds, rule_thresholds, all_items, items_metrics,
                   tree, new_nid, t_idx, ti, parent_nid, all_rules, rules_metrics,
                   run, first_run, rule_calls, tasks, raised, analysis, prompt>>

\* tree.create_node(tag=item, identifier=new_nid, parent=parent_nid, ...):
\* treelib raises DuplicatedNodeIdError for an identifier the tree has
WriterCreate(w) ==
    /\ pc = "writers" /\ writers[w].pc = "create"
    /\ IF new_nid \in DOMAIN tree
       THEN /\ WriterStep(w, [writers[w] EXCEPT !.pc = "DuplicatedNodeIdError"])
            /\ UNCHANGED tree
       ELSE /\ tree' = (new_nid :> NewNode(Head(writers[w].ti), writers[w].parent_nid,
                                           Len(trans_db), items_metrics)) @@ tree
            /\ WriterStep(w, [writers[w] EXCEPT !.pc = "advance"])
    /\ UNCHANGED <<pc, inputs, item_thresholds, rule_thresholds, all_items, items_metrics,
                   item_nodes, new_nid, t_idx, ti, parent_nid, all_rules, rules_metrics,
                   run, first_run, rule_calls, tasks, raised, analysis, prompt>>

\* parent_nid = new_nid; new_nid += 1
WriterAdvance(w) ==
    /\ pc = "writers" /\ writers[w].pc = "advance"
    /\ new_nid' = new_nid + 1
    /\ WriterStep(w, [writers[w] EXCEPT !.parent_nid = new_nid,
                                        !.ti = Tail(@), !.pc = AfterItem(w)])
    /\ UNCHANGED <<pc, inputs, item_thresholds, rule_thresholds, all_items, items_metrics,
                   tree, item_nodes, t_idx, ti, parent_nid, all_rules, rules_metrics,
                   run, first_run, rule_calls, tasks, raised, analysis, prompt>>

NextWriters ==
    \/ GetItemsMetrics
    \/ FilterFrequencyAndWeight
    \/ InitTree
    \/ SequentialInsertion
    \/ InsertItemStep
    \/ StartWriters
    \/ \E w \in Writers : WriterBegin(w)
    \/ \E w \in Writers : WriterLookup(w)
    \/ \E w \in Writers : WriterNavigate(w)
    \/ \E w \in Writers : WriterStore(w)
    \/ \E w \in Writers : WriterRegister(w)
    \/ \E w \in Writers : WriterCreate(w)
    \/ \E w \in Writers : WriterAdvance(w)

\* at least one transaction per writer, no item listed twice, unit weights
InitWriters ==
    /\ Init
    /\ Len(trans_db) >= MaxWriters
    /\ \A i \in 1..Len(trans_db) : NoRepeat(trans_db[i])
    /\ \A i \in ItemsOf(trans_db) : item_weights[i] = R(1, 1)

SpecWriters == InitWriters /\ [][NextWriters]_vars

-----------------------------------------------------------------------------
(* The association analysis of src/gori/src/associations.py.  A term is a   *)
(* string "resource:id"; the transaction matrix is the list of its rows,    *)
(* each row the set of the terms (columns) that are True for the gene; a    *)
(* table of associations is the list of its rows; an index label is the     *)
(* position of the row.  The library calls are modelled by what they        *)
(* return: fpgrowth and association_rules of mlxtend, fisher_exact of       *)
(* scipy, fdrcorrection of statsmodels.                                     *)

\* the character ':'
Colon == 58

HasColon(x) == \E i \in 1..Len(x) : x[i] = Colon
ColonAt(x) == CHOOSE i \in 1..Len(x) : x[i] = Colon /\ \A j \in 1..(i - 1) : x[j] # Colon
\* x.split(":", 1)[0]
get_resource(x) == IF HasColon(x) THEN SubSeq(x, 1, ColonAt(x) - 1) ELSE x
\* t.split(":", 1)[1]
TermId(x) == SubSeq(x, ColonAt(x) + 1, Len(x))
\* f"{resource}:{t}"
Prefixed(resource, t) == resource \o <<Colon>> \o t

RatMul(a, b) == R(a.n * b.n, a.d * b.d)

\* the rows of the set S listed in the strict total order before
SortedRows(S, before) ==
    [p \in 1..Cardinality(S) |->
        CHOOSE x \in S : Cardinality({y \in S : <<y, x>> \in before}) = p - 1]

\* the genes whose row is True in every column of terms
Annotated(tm, terms) == {g \in 1..Len(tm) : terms \subseteq tm[g]}
support(tm, terms) == R(Cardinality(Annotated(tm, terms)), Len(tm))
ColumnsOf(tm) == UNION {tm[g] : g \in 1..Len(tm)}

AssociationBefore(r1, r2) ==
    \/ StrLess(r1.antecedents, r2.antecedents)
    \/ (r1.antecedents = r2.antecedents /\ StrLess(r1.consequents, r2.consequents))

\* fpgrowth(min_support, max_len=2) keeps the itemsets of one or two columns
\* whose support is at least min_support; association_rules(metric="lift",
\* min_threshold=1) gives the two rules of every frequent pair whose lift is
\* at least 1.  The rows are listed by antecedent, then consequent.
get_all_associations(tm, n_genes_threshold) ==
    LET minimum_support == R(n_genes_threshold, Len(tm))
        cols == ColumnsOf(tm)
        lift(p) == RatDiv(support(tm, {p[1], p[2]}),
                          RatMul(support(tm, {p[1]}), support(tm, {p[2]})))
        frequent == {p \in cols \X cols :
                        /\ p[1] # p[2]
                        /\ RatGeq(support(tm, {p[1], p[2]}), minimum_support)}
        rules == {[antecedents |-> p[1], consequents |-> p[2], lift |-> lift(p)] :
                     p \in {q \in frequent : RatGeq(lift(q), R(1, 1))}}
    IN  SortedRows(rules, {rr \in rules \X rules : AssociationBefore(rr[1], rr[2])})

WithResources(r) ==
    [antecedents |-> r.antecedents, consequents |-> r.consequents, lift |-> r.lift,
     resource_a |-> get_resource(r.antecedents),
     resource_c |-> get_resource(r.consequents)]

get_target_associations(assocs, antecedent_resource, consequent_resource) ==
    LET tmp == [i \in 1..Len(assocs) |-> WithResources(assocs[i])]
    IN  SelectSeq(tmp, LAMBDA r : /\ r.resource_a = antecedent_resource
                                  /\ r.resource_c = consequent_resource)

get_contingency_matrix(A, C, tm) ==
    LET a == Cardinality(Annotated(tm, {A, C}))
        b == Cardinality(Annotated(tm, {A})) - a
        c == Cardinality(Annotated(tm, {C})) - a
        d == Len(tm) - a - b - c
    IN  [a |-> a, b |-> b, c |-> c, d |-> d]

RECURSIVE Binomial(_, _)
Binomial(n, k) ==
    IF k < 0 \/ k > n THEN 0
    ELSE IF k = 0 THEN 1
    ELSE (Binomial(n - 1, k - 1) * n) \div k

\* the tables with the margins of m and at least m.a in the first cell
RECURSIVE GreaterTables(_, _)
GreaterTables(m, k) ==
    IF k > Min(m.a + m.b, m.a + m.c) THEN 0
    ELSE Binomial(m.a + m.b, k) * Binomial(m.c + m.d, m.a + m.c - k)
         + GreaterTables(m, k + 1)

\* fisher_exact(contingency_matrix, alternative="greater")[1]
fisher_exact_greater(m) ==
    R(GreaterTables(m, m.a), Binomial(m.a + m.b + m.c + m.d, m.a + m.c))

get_fisher_exact(A, C, tm) == fisher_exact_greater(get_contingency_matrix(A, C, tm))

\* fdrcorrection(pvals)[1], Benjamini-Hochberg: the p-value of rank j times
\* m / j, the minimum taken over the ranks from its own on, at most 1
fdrcorrection(pvals) ==
    LET m == Len(pvals)
        rank(q) == Cardinality({i \in 1..m : RatLeq(pvals[i], q)})
        raw(q) == RatMul(q, R(m, rank(q)))
        least(p) == CHOOSE x \in {raw(pvals[i]) : i \in {j \in 1..m : RatLeq(p, pvals[j])}} :
                        \A i \in {j \in 1..m : RatLeq(p, pvals[j])} : RatLeq(x, raw(pvals[i]))
        capped(x) == IF RatLess(R(1, 1), x) THEN R(1, 1) ELSE x
    IN  [i \in 1..m |-> capped(least(pvals[i]))]

WithFdr(r, p, f) ==
    [antecedents |-> r.antecedents, consequents |-> r.consequents, lift |-> r.lift,
     resource_a |-> r.resource_a, resource_c |-> r.resource_c, pval |-> p, fdr |-> f]

\* called with fdr=True on a table that has rows
get_significant_associations(assocs, tm, pvalue_threshold) ==
    LET pval == [i \in 1..Len(assocs) |->
                    get_fisher_exact(assocs[i].antecedents, assocs[i].consequents, tm)]
        fdr == fdrcorrection(pval)
        tmp == [i \in 1..Len(assocs) |-> WithFdr(assocs[i], pval[i], fdr[i])]
    IN  SelectSeq(tmp, LAMBDA r : RatLess(r.fdr, pvalue_threshold))

\* the binary search of _get_lift_threshold: "while lower_index -
\* upper_index > 1"; the indexes are those of Python, from 0
RECURSIVE LiftSearch(_, _, _, _, _)
LiftSearch(assocs, tm, pvalue_threshold, upper_index, lower_index) ==
    IF lower_index - upper_index > 1
    THEN LET center_index == (lower_index + upper_index) \div 2
             tmp == assocs[center_index + 1]
             pvalue == get_fisher_exact(tmp.antecedents, tmp.consequents, tm)
         IN  IF RatLess(pvalue, pvalue_threshold)
             THEN LiftSearch(assocs, tm, pvalue_threshold, center_index, lower_index)
             ELSE LiftSearch(assocs, tm, pvalue_threshold, upper_index, center_index)
    ELSE lower_index

get_lift_threshold(assocs, tm, pvalue_threshold) ==
    assocs[LiftSearch(assocs, tm, pvalue_threshold, 0, Len(assocs) - 1) + 1].lift

get_strong_associations(assocs, tm, pvalue_threshold) ==
    LET lift_threshold == get_lift_threshold(assocs, tm, pvalue_threshold)
    IN  SelectSeq(assocs, LAMBDA r : RatLess(lift_threshold, r.lift))

\* sort_values(by=["lift", "antecedents", "consequents"],
\*             ascending=[False, True, True])
StrengthBefore(r1, r2) ==
    \/ RatLess(r2.lift, r1.lift)
    \/ (r1.lift = r2.lift /\ AssociationBefore(r1, r2))

sort_by_strength(assocs) ==
    StableSort(assocs, {p \in SeqToSet(assocs) \X SeqToSet(assocs) :
                            StrengthBefore(p[1], p[2])})

\* H.get(e, set())
Parents(H, e) == IF e \in DOMAIN H THEN H[e] ELSE {}

RECURSIVE get_generic_ancestors(_, _, _)
get_generic_ancestors(terms, H, ancestors) ==
    LET parents == UNION {Parents(H, e) : e \in terms}
        next == parents \ ancestors
        all == ancestors \cup parents
    IN  IF next # {} THEN get_generic_ancestors(next, H, all) ELSE all

get_generic_descendants(terms, H) ==
    {d \in DOMAIN H : get_generic_ancestors({d}, H, {}) \cap terms # {}}

\* the resources of the model have no wrapper: the generic functions are used
get_resource_ancestors(terms, resource, d) == get_generic_ancestors(terms, d[resource], {})
get_resource_descendants(terms, resource, d) == get_generic_descendants(terms, d[resource])

get_unique_terms(terms, resource, d) ==
    LET tmp == {TermId(t) : t \in terms}
        ancestors == get_resource_ancestors(tmp, resource, d)
        unique_terms == tmp \ ancestors
    IN  {Prefixed(resource, t) : t \in unique_terms}

\* the rows of the antecedent a whose consequent is kept
get_unique_indexes(a, assocs, d) ==
    LET tmp == SelectSeq(assocs, LAMBDA r : r.antecedents = a)
        terms == {tmp[i].consequents : i \in 1..Len(tmp)}
        unique_terms == get_unique_terms(terms, assocs[1].resource_c, d)
        throwaway == get_resource_ancestors({a}, assocs[1].resource_a, d)
                     \cup get_resource_descendants({a}, assocs[1].resource_a, d)
    IN  SelectSeq(tmp, LAMBDA r : r.consequents \in (unique_terms \ throwaway))

\* Series.unique(): the values in the order of their first appearance
RECURSIVE UniqueValues(_, _)
UniqueValues(s, seen) ==
    IF s = <<>> THEN <<>>
    ELSE IF Head(s) \in seen THEN UniqueValues(Tail(s), seen)
    ELSE <<Head(s)>> \o UniqueValues(Tail(s), seen \cup {Head(s)})

\* np.hstack of the indexes of every antecedent, then associations.loc
get_unique_associations(assocs, d) ==
    LET antecedents == UniqueValues([i \in 1..Len(assocs) |-> assocs[i].antecedents], {})
    IN  Flatten([i \in 1..Len(antecedents) |-> get_unique_indexes(antecedents[i], assocs, d)])

\* transaction_matrix.index[tmp].to_list(): the genes of both terms
get_association_genes(a, c, tm) ==
    LET both == Annotated(tm, {a, c})
    IN  SortedRows(both, {p \in both \X both : p[1] < p[2]})

\* the columns n_genes, genes, id_a and id_c; the urls and the translations
\* come from the wrappers of the resources and are left out
enrich_associations(assocs, tm) ==
    [i \in 1..Len(assocs) |->
        [antecedents |-> assocs[i].antecedents, consequents |-> assocs[i].consequents,
         lift |-> assocs[i].lift,
         resource_a |-> assocs[i].resource_a, resource_c |-> assocs[i].resource_c,
         pval |-> assocs[i].pval, fdr |-> assocs[i].fdr,
         n_genes |-> Len(get_association_genes(assocs[i].antecedents,
                                               assocs[i].consequents, tm)),
         genes |-> get_association_genes(assocs[i].antecedents,
                                         assocs[i].consequents, tm),
         id_a |-> TermId(assocs[i].antecedents),
         id_c |-> TermId(assocs[i].consequents)]]

\* The inputs of the analysis: the resources "f" and "m", two terms each
ResourceF == <<6>>
ResourceM == <<13>>
F1 == Prefixed(ResourceF, <<1>>)
F2 == Prefixed(ResourceF, <<2>>)
M1 == Prefixed(ResourceM, <<1>>)
M2 == Prefixed(ResourceM, <<2>>)
Terms == {F1, F2, M1, M2}

\* the two genes of a pair of rows are listed in one order only
RowCode(S) ==
    (IF F1 \in S THEN 1 ELSE 0) + (IF F2 \in S THEN 2 ELSE 0)
    + (IF M1 \in S THEN 4 ELSE 0) + (IF M2 \in S THEN 8 ELSE 0)

TransactionMatrices ==
    {tm \in [1..MaxGenes -> SUBSET Terms] :
        /\ ColumnsOf(tm) # {}
        /\ \A g \in 1..(MaxGenes - 1) : RowCode(tm[g]) <= RowCode(tm[g + 1])}

\* hierarchies of "m" as load_local reads them from a JSON file, term ->
\* parents: none, "2" under "1", and "1" and "2" each listed under the other
Hierarchies ==
    {<<>>,
     (<<2>> :> {<<1>>}),
     (<<1>> :> {<<2>>}) @@ (<<2>> :> {<<1>>})}

Parameters ==
    [n_genes_threshold : {1, 2},
     pvalue_threshold : {R(1, 20), R(1, 2)},
     use_heuristic : BOOLEAN]

antecedent_resource == ResourceF
consequent_resource == ResourceM

NoneFound == "No associations found with {n_genes_threshold} genes or more."
NoneBetween == "No associations found between {antecedent_resource} and {consequent_resource}."
NoneStrong == "No strong associations found using a heuristic."
NoneCorrected == "No associations found with corrected p-values."
CounterPrinted == "{associations_counter}"

InitAnalysis ==
    /\ pc = "get_all_associations"
    /\ transaction_matrix \in TransactionMatrices
    /\ \E H \in Hierarchies :
          data = [r \in {ResourceF, ResourceM} |-> IF r = ResourceM THEN H ELSE <<>>]
    /\ params \in Parameters
    /\ associations = Unset
    /\ associations_counter = <<[key |-> "resource", val |-> consequent_resource]>>
    /\ printed = <<>>
    /\ trans_db = Unset /\ item_weights = Unset
    /\ min_item_freq = Unset /\ min_item_weight = Unset
    /\ min_rule_conf = Unset /\ min_rule_lift = Unset
    /\ all_items = Unset /\ items_metrics = Unset
    /\ tree = Unset /\ item_nodes = Unset /\ new_nid = RootNid
    /\ t_idx = 0 /\ ti = <<>> /\ parent_nid = RootNid
    /\ all_rules = Unset /\ rules_metrics = Unset
    /\ run = 1 /\ first_run = Unset
    /\ raised = Unset
    /\ rule_calls = 0
    /\ tasks = Unset
    /\ NoWriters /\ NoPrompt

\* "if len(associations.index) == 0: print(message); break"
BreakIfEmpty(message, next_stage) ==
    IF associations' = <<>>
    THEN printed' = Append(printed, message) /\ pc' = "print_counter"
    ELSE pc' = next_stage /\ UNCHANGED printed

GetAllAssociations ==
    /\ pc = "get_all_associations"
    /\ associations' = get_all_associations(transaction_matrix, params.n_genes_threshold)
    /\ BreakIfEmpty(NoneFound, "get_target_associations")
    /\ UNCHANGED <<transaction_matrix, data, params, associations_counter>>
    /\ UNCHANGED <<inputs, item_thresholds, rule_thresholds, all_items, items_metrics,
                   builder, all_rules, rules_metrics, run, first_run, rule_calls, tasks,
                   raised, writers, overlap, prompt>>

GetTargetAssociations ==
    /\ pc = "get_target_associations"
    /\ associations' = get_target_associations(associations, antecedent_resource,
                                               consequent_resource)
    /\ associations_counter' = DictSet(associations_counter, "target", Len(associations'))
    /\ BreakIfEmpty(NoneBetween, "get_strong_associations")
    /\ UNCHANGED <<transaction_matrix, data, params>>
    /\ UNCHANGED <<inputs, item_thresholds, rule_thresholds, all_items, items_metrics,
                   builder, all_rules, rules_metrics, run, first_run, rule_calls, tasks,
                   raised, writers, overlap, prompt>>

\* the sort by strength, then _get_strong_associations
GetStrongAssociations ==
    /\ pc = "get_strong_associations"
    /\ associations' = get_strong_associations(sort_by_strength(associations),
                                               transaction_matrix,
                                               params.pvalue_threshold)
    /\ associations_counter' = DictSet(associations_counter, "strong", Len(associations'))
    /\ BreakIfEmpty(NoneStrong, "get_unique_associations")
    /\ UNCHANGED <<transaction_matrix, data, params>>
    /\ UNCHANGED <<inputs, item_thresholds, rule_thresholds, all_items, items_metrics,
                   builder, all_rules, rules_metrics, run, first_run, rule_calls, tasks,
                   raised, writers, overlap, prompt>>

\* no test of the size of the table follows the stage
GetUniqueAssociations ==
    /\ pc = "get_unique_associations"
    /\ associations' = get_unique_associations(associations, data)
    /\ associations_counter' = DictSet(associations_counter, "unique", Len(associations'))
    /\ pc' = "get_significant_associations"
    /\ UNCHANGED <<transaction_matrix, data, params, printed>>
    /\ UNCHANGED <<inputs, item_thresholds, rule_thresholds, all_items, items_metrics,
                   builder, all_rules, rules_metrics, run, first_run, rule_calls, tasks,
                   raised, writers, overlap, prompt>>

\* "cannot call `vectorize` on size 0 inputs unless `otypes` is set"
VectorizeMessage == "size 0 inputs"

\* np.vectorize without otypes raises ValueError when the table has no row
GetSignificantAssociations ==
    /\ pc = "get_significant_associations"
    /\ IF associations = <<>>
       THEN /\ pc' = "ValueError"
            /\ raised' = VectorizeMessage
            /\ UNCHANGED <<associations, associations_counter, printed>>
       ELSE /\ associations' = get_significant_associations(associations,
                                    transaction_matrix, params.pvalue_threshold)
            /\ associations_counter' =
                   DictSet(associations_counter, "corrected", Len(associations'))
            /\ BreakIfEmpty(NoneCorrected, "enrich_associations")
            /\ UNCHANGED raised
    /\ UNCHANGED <<transaction_matrix, data, params>>
    /\ UNCHANGED <<inputs, item_thresholds, rule_thresholds, all_items, items_metrics,
                   builder, all_rules, rules_metrics, run, first_run, rule_calls, tasks,
                   writers, overlap, prompt>>

EnrichAssociations ==
    /\ pc = "enrich_associations"
    /\ associations' = enrich_associations(associations, transaction_matrix)
    /\ pc' = "print_counter"
    /\ UNCHANGED <<transaction_matrix, data, params, associations_counter, printed>>
    /\ UNCHANGED <<inputs, item_thresholds, rule_thresholds, all_items, items_metrics,
                   builder, all_rules, rules_metrics, run, first_run, rule_calls, tasks,
                   raised, writers, overlap, prompt>>

\* print(associations_counter); return out
PrintCounter ==
    /\ pc = "print_counter"
    /\ printed' = Append(printed, CounterPrinted)
    /\ pc' = "returned"
    /\ UNCHANGED <<transaction_matrix, data, params, associations, associations_counter>>
    /\ UNCHANGED <<inputs, item_thresholds, rule_thresholds, all_items, items_metrics,
                   builder, all_rules, rules_metrics, run, first_run, rule_calls, tasks,
                   raised, writers, overlap, prompt>>

NextAnalysis ==
    \/ GetAllAssociations
    \/ GetTargetAssociations
    \/ GetStrongAssociations
    \/ GetUniqueAssociations
    \/ GetSignificantAssociations
    \/ EnrichAssociations
    \/ PrintCounter

SpecAnalysis == InitAnalysis /\ [][NextAnalysis]_vars

-----------------------------------------------------------------------------
(* get_numeric_input of fptree.py.  An entry is the string that input()      *)
(* returns, a sequence of ASCII codes.  The calls in progress are a stack:   *)
(* frames[k] is the local negative of the k-th call, the last one being the  *)
(* call that is prompting or returning.                                      *)

AsciiMinus == 45
AsciiZero == 48
AsciiNine == 57
\* the keys the user presses: '-', '1', '3' and 'A'
Keys == {AsciiMinus, 49, 51, 65}

Entries == SeqsUpTo(Keys, MaxChars)

\* the arguments mini and maxi: those of the usage example, and two ranges
\* that leave short entries out on either side
Limits == {[mini |-> 0, maxi |-> 20], [mini |-> 0, maxi |-> 2], [mini |-> 2, maxi |-> 20]}

IsDigit(c) == c \in AsciiZero..AsciiNine

RECURSIVE DigitsValue(_)
DigitsValue(s) ==
    IF s = <<>> THEN 0
    ELSE 10 * DigitsValue(SubSeq(s, 1, Len(s) - 1)) + (s[Len(s)] - AsciiZero)

Unsigned(e) == IF e # <<>> /\ e[1] = AsciiMinus THEN Tail(e) ELSE e

\* float(var) does not raise ValueError: on these keys, an optional minus
\* followed by one digit or more
Numeric(e) ==
    /\ Unsigned(e) # <<>>
    /\ \A i \in 1..Len(Unsigned(e)) : IsDigit(Unsigned(e)[i])

\* float(var) for a numeric entry
float(e) ==
    IF e[1] = AsciiMinus THEN 0 - DigitsValue(Tail(e)) ELSE DigitsValue(e)

Hint == "## You can add a minus to input a maximal value instead"
OutOfLimits == "Wrong input: out of limits value."
NonNumeric == "Wrong input: non numeric value."

InitPrompt ==
    /\ pc = "input"
    /\ \E l \in Limits : mini = l.mini /\ maxi = l.maxi
    /\ typed = <<>>
    /\ frames = <<FALSE>>
    /\ var = Unset
    /\ console = <<Hint>>
    /\ trans_db = Unset /\ item_weights = Unset
    /\ min_item_freq = Unset /\ min_item_weight = Unset
    /\ min_rule_conf = Unset /\ min_rule_lift = Unset
    /\ all_items = Unset /\ items_metrics = Unset
    /\ tree = Unset /\ item_nodes = Unset /\ new_nid = RootNid
    /\ t_idx = 0 /\ ti = <<>> /\ parent_nid = RootNid
    /\ all_rules = Unset /\ rules_metrics = Unset
    /\ run = 1 /\ first_run = Unset
    /\ raised = Unset
    /\ rule_calls = 0
    /\ tasks = Unset
    /\ NoAnalysis /\ NoWriters

\* print(message); var = get_numeric_input(label, mini, maxi): the call in
\* progress keeps its negative and waits, the new call prints the hint and
\* prompts
Recurse(negative, message) ==
    /\ frames' = Append([frames EXCEPT ![Len(frames)] = negative], FALSE)
    /\ console' = console \o <<message, Hint>>
    /\ UNCHANGED <<pc, var>>

\* lines 431-444: var = input(...) and the try block, up to the recursive
\* call or to the end of the block
ReadEntry ==
    /\ pc = "input"
    /\ Len(typed) < MaxEntries
    /\ \E e \in Entries :
          /\ typed' = Append(typed, e)
          /\ IF ~Numeric(e)
             THEN Recurse(FALSE, NonNumeric)
             ELSE LET negative == float(e) < 0
                      v == IF negative THEN 0 - float(e) ELSE float(e)
                  IN  IF v < mini \/ v > maxi
                      THEN Recurse(negative, OutOfLimits)
                      ELSE /\ frames' = [frames EXCEPT ![Len(frames)] = negative]
                           /\ var' = v
                           /\ pc' = "return"
                           /\ UNCHANGED console
    /\ UNCHANGED <<inputs, item_thresholds, rule_thresholds, all_items, items_metrics,
                   builder, all_rules, rules_metrics, run, first_run, rule_calls, tasks,
                   raised, analysis, writers, overlap, mini, maxi>>

\* lines 445-447 of the call that has its var: "if negative: var = -var;
\* return var", the value going to the call that waits for it, if any
ReturnVar ==
    /\ pc = "return"
    /\ var' = IF frames[Len(frames)] THEN 0 - var ELSE var
    /\ frames' = SubSeq(frames, 1, Len(frames) - 1)
    /\ pc' = IF Len(frames) = 1 THEN "returned" ELSE "return"
    /\ UNCHANGED <<inputs, item_thresholds, rule_thresholds, all_items, items_metrics,
                   builder, all_rules, rules_metrics, run, first_run, rule_calls, tasks,
                   raised, analysis, writers, overlap, mini, maxi, typed, console>>

NextPrompt ==
    \/ ReadEntry
    \/ ReturnVar

SpecPrompt == InitPrompt /\ [][NextPrompt]_vars

-----------------------------------------------------------------------------
(* Vocabulary of the properties *)

N == Len(trans_db)
Occurs(item, t) == \E i \in 1..Len(t) : t[i] = item
\* the transactions that contain the item
Containing(item) == {i \in 1..N : Occurs(item, trans_db[i])}
\* the transactions that contain both items
Both(a, b) == Containing(a) \cap Containing(b)
NoRepeatedItems == \A i \in 1..N : NoRepeat(trans_db[i])

\* get_items_metrics has returned
MetricsDone == pc # "get_items_metrics"
\* filter_frequency_and_weight has returned
Filtered == pc \notin {"get_items_metrics", "filter_frequency_and_weight"}
\* construct_fptree has returned
Built == TreeBuilt \/ pc \in {"filter_confidence_and_lift", "done", "KeyError"}
\* get_rules_metrics has returned
RulesDone == pc \in {"filter_confidence_and_lift", "done", "KeyError"}

TableItems == SeqToSet(ItemColumn(items_metrics))
\* place of an item in the canonical order (the filtered item table)
Position(item) == CHOOSE i \in 1..Len(items_metrics) : items_metrics[i].item = item
Frequency(item) == items_metrics[Position(item)].freq
\* same category: the first two characters agree
SameCategory(a, b) ==
    \/ a = b
    \/ (Len(a) >= 2 /\ Len(b) >= 2 /\ a[1] = b[1] /\ a[2] = b[2])

Perms(n) == {p \in [1..n -> 1..n] : \A i, j \in 1..n : p[i] = p[j] => i = j}
Permuted(s, p) == [i \in 1..Len(s) |-> s[p[i]]]

\* a = b / c for rationals, by cross multiplication
IsQuotient(a, b, c) == a.n * (b.d * c.n) = a.d * (b.n * c.d)

-----------------------------------------------------------------------------
(* C1 *)

\* items that precede I in the canonical order, belong to another category
\* and occur with I in a transaction
CoItems(I) ==
    {A \in TableItems : /\ Position(A) < Position(I)
                        /\ ~SameCategory(A, I)
                        /\ Both(A, I) # {}}

-----------------------------------------------------------------------------
(* C2 *)

\* tags on the path from the root to a node, the root left out
RECURSIVE PathTags(_)
PathTags(nid) ==
    IF nid = RootNid THEN <<>> ELSE Append(PathTags(tree[nid].parent), tree[nid].tag)

IsPrefix(p, s) == Len(p) <= Len(s) /\ \A i \in 1..Len(p) : p[i] = s[i]

\* the transactions whose canonical ordering starts with the path of the node
Through(nid) ==
    {i \in 1..N : IsPrefix(PathTags(nid), order_transaction(trans_db[i], items_metrics))}

\* C2: once all N transactions are inserted, the support of every non-root
\* node is k/N, k the number of transactions whose canonical ordering starts
\* with the tags on the path from the root to the node.
C2_SupportIsPrefixShare ==
    Built => \A nid \in DOMAIN tree \ {RootNid} :
                tree[nid].freq = R(Cardinality(Through(nid)), N)

\* a built tree with a shared node (support of two transactions) that has a
\* child of smaller support
C2_Witness ==
    /\ Built
    /\ \E nid \in DOMAIN tree \ {RootNid} :
          /\ Cardinality(Through(nid)) >= 2
          /\ \E c \in Children(tree, nid) : RatLess(tree[c].freq, tree[nid].freq)

-----------------------------------------------------------------------------
(* C3 *)

\* indices of the rules body => head
RulesFor(body, head) ==
    {k \in 1..Len(all_rules) : all_rules[k].body = body /\ all_rules[k].head = head}

IsRuleOf(r, s, body, head) ==
    /\ IsQuotient(r.conf, s, Frequency(body))
    /\ IsQuotient(r.lift, r.conf, Frequency(head))
    /\ r.cover = Frequency(body)

\* the (target item, ancestor item, support) entries of the conditional
\* pattern bases of the items after the first one
PatternBase ==
    UNION {{<<I, e.key, e.val>> : e \in SeqToSet(get_condition_tree(I, tree, item_nodes))} :
              I \in SeqToSet(HeadItems(items_metrics))}

-----------------------------------------------------------------------------
(* C4 *)

One == R(1, 1)

\* C4: every rule of get_rules_metrics has 0 <= confidence <= 1 and
\* lift >= 0, and the co-occurring support of a pair never exceeds the
\* frequency of either of its items.
C4_ConfidenceInUnitInterval ==
    RulesDone =>
        /\ \A k \in 1..Len(all_rules) :
              /\ RatLeq(Zero, all_rules[k].conf)
              /\ RatLeq(all_rules[k].conf, One)
              /\ RatLeq(Zero, all_rules[k].lift)
        /\ \A x \in PatternBase :
              /\ RatLeq(x[3], Frequency(x[1]))
              /\ RatLeq(x[3], Frequency(x[2]))

\* a rule of confidence 1, a rule of confidence below 1 and a lift above 1,
\* from a collection in which a transaction repeats an item
C4_Witness ==
    /\ RulesDone
    /\ ~NoRepeatedItems
    /\ \E k \in 1..Len(all_rules) : all_rules[k].conf = One
    /\ \E k \in 1..Len(all_rules) : RatLess(all_rules[k].conf, One)
    /\ \E k \in 1..Len(all_rules) : RatLess(One, all_rules[k].lift)

-----------------------------------------------------------------------------
(* C5 *)

RowsOf(item) == {k \in 1..Len(all_items) : all_items[k].item = item}

\* C5: for a non-empty collection, every item that occurs in a transaction
\* has frequency (number of transactions containing it) / N, so
\* 0 < frequency <= 1.
C5_FrequencyIsShareOfTransactions ==
    (MetricsDone /\ N > 0) =>
        \A item \in Items :
            Containing(item) # {} =>
                /\ Cardinality(RowsOf(item)) = 1
                /\ \A k \in RowsOf(item) :
                      /\ all_items[k].freq = R(Cardinality(Containing(item)), N)
                      /\ RatLess(Zero, all_items[k].freq)
                      /\ RatLeq(all_items[k].freq, One)

-----------------------------------------------------------------------------
(* C6 *)

\* C6: filter_frequency_and_weight returns the surviving items by frequency
\* descending, ties by item id ascending: a strict total order, the same
\* whatever the order of the rows in the input table.
C6_ItemTableOrder ==
    pc = "construct_fptree" =>
        /\ \A i, j \in 1..Len(items_metrics) :
              i < j =>
                \/ RatLess(items_metrics[j].freq, items_metrics[i].freq)
                \/ /\ items_metrics[j].freq = items_metrics[i].freq
                   /\ StrLess(items_metrics[i].item, items_metrics[j].item)
        /\ \A p \in Perms(Len(all_items)) :
              filter_frequency_and_weight(Permuted(all_items, p),
                                          min_item_freq, min_item_weight) = items_metrics

\* place of an item in the table of get_items_metrics (first-seen order)
FirstSeen(item) == CHOOSE i \in 1..Len(all_items) : all_items[i].item = item

\* a tie on the frequency and a pair of different frequencies, both listed
\* the other way round in the input table
C6_Witness ==
    /\ pc = "construct_fptree"
    /\ \E i, j \in 1..Len(items_metrics) :
          /\ i < j
          /\ items_metrics[i].freq = items_metrics[j].freq
          /\ FirstSeen(items_metrics[j].item) < FirstSeen(items_metrics[i].item)
    /\ \E i, j \in 1..Len(items_metrics) :
          /\ i < j
          /\ items_metrics[i].freq # items_metrics[j].freq
          /\ FirstSeen(items_metrics[j].item) < FirstSeen(items_metrics[i].item)

-----------------------------------------------------------------------------
(* C7 *)

Count(s, x) == Cardinality({i \in 1..Len(s) : s[i] = x})

\* C7: order_transaction(ti, items) is the items of ti that have a row in the
\* filtered table (the others dropped), by increasing position in the
\* table; the order in which ti lists its items does not matter, and the
\* transaction of the collection is left as it was.
C7_OrderTransaction ==
    [][(pc = "for_ti" /\ t_idx' = t_idx + 1) =>
        LET t == trans_db[t_idx + 1]
        IN  /\ \A x \in Items :
                  Count(ti', x) = IF x \in TableItems THEN Count(t, x) ELSE 0
            /\ \A a, b \in 1..Len(ti') : a < b => Position(ti'[a]) <= Position(ti'[b])
            /\ \A p \in Perms(Len(t)) :
                  order_transaction(Permuted(t, p), items_metrics) = ti'
            /\ trans_db' = trans_db]_vars

\* an ordered transaction that lost an item and lists the others in another
\* order than the transaction
C7_Witness ==
    /\ pc = "for_item"
    /\ ti = order_transaction(trans_db[t_idx], items_metrics)
    /\ Len(ti) >= 2
    /\ Len(ti) < Len(trans_db[t_idx])
    /\ ~ById(ti)

-----------------------------------------------------------------------------
(* C8 *)

\* threshold t >= 0: value >= t; threshold -t < 0: value <= t
Keeps(value, t) ==
    IF t.n >= 0
    THEN value.n * t.d >= t.n * value.d
    ELSE value.n * t.d <= (-t.n) * value.d

KeptItems ==
    {k \in 1..Len(all_items) : /\ Keeps(all_items[k].freq, min_item_freq)
                               /\ Keeps(all_items[k].weight, min_item_weight)}
KeptRules ==
    {k \in 1..Len(all_rules) : /\ Keeps(all_rules[k].conf, min_rule_conf)
                               /\ Keeps(all_rules[k].lift, min_rule_lift)}

\* C8: in both filters a row survives if and only if each of its two columns
\* passes its own threshold: value >= t for a threshold t >= 0 (a value
\* equal to t is kept), value <= t for a negative threshold -t.
C8_ThresholdsPerColumn ==
    /\ Filtered =>
          /\ SeqToSet(items_metrics) = {all_items[k] : k \in KeptItems}
          /\ Len(items_metrics) = Cardinality(KeptItems)
    /\ pc = "done" =>
          /\ SeqToSet(rules_metrics) = {all_rules[k] : k \in KeptRules}
          /\ Len(rules_metrics) = Cardinality(KeptRules)

\* an item kept with its frequency on the maximum and its weight on the
\* minimum, an item dropped above the maximum; a rule kept with its
\* confidence on the threshold, and a rule dropped
C8_Witness ==
    /\ pc = "done"
    /\ min_item_freq.n < 0 /\ min_item_weight.n > 0
    /\ \E r \in SeqToSet(items_metrics) :
          r.freq = RatNeg(min_item_freq) /\ r.weight = min_item_weight
    /\ \E r \in SeqToSet(all_items) : RatLess(RatNeg(min_item_freq), r.freq)
    /\ \E r \in SeqToSet(rules_metrics) : r.conf = R(Abs(min_rule_conf.n), min_rule_conf.d)
    /\ Len(rules_metrics) < Len(all_rules)

-----------------------------------------------------------------------------
(* C9 *)

-----------------------------------------------------------------------------
(* C10 *)

-----------------------------------------------------------------------------
(* C11 *)

\* tags on the path from the root to a node of the tree t, the root left out
RECURSIVE PathTagsIn(_, _)
PathTagsIn(t, nid) ==
    IF nid = RootNid THEN <<>> ELSE Append(PathTagsIn(t, t[nid].parent), t[nid].tag)

\* a tree without its node ids: the paths with their support and weight
Shape(t) ==
    {<<PathTagsIn(t, nid), t[nid].freq, t[nid].weight>> : nid \in DOMAIN t \ {RootNid}}

\* the first three stages and get_rules_metrics on the collection db, with
\* the weights and thresholds of the run
RunOn(db) ==
    LET rows  == filter_frequency_and_weight(get_items_metrics(db, item_weights),
                                             min_item_freq, min_item_weight)
        built == construct_fptree(db, rows)
    IN  [all_items |-> get_items_metrics(db, item_weights),
         items_metrics |-> rows, tree |-> built.tree, item_nodes |-> built.item_nodes,
         all_rules |-> get_rules_metrics(built.tree, built.item_nodes, rows)]

\* the collection with its transactions in the order p
PermutedRun(p) == RunOn(Permuted(trans_db, p))

\* C11: with the transactions of the collection in any other order, the
\* filtered item table is the same (same rows, same order), the tree has the
\* same paths with the same supports and weights (node ids apart) and
\* get_rules_metrics gives the same set of rules (body, head, confidence,
\* lift, coverage).
C11_TransactionOrderIrrelevant ==
    pc = "filter_confidence_and_lift" =>
        \A p \in Perms(N) :
            LET other == PermutedRun(p)
            IN  /\ other.items_metrics = items_metrics
                /\ Shape(other.tree) = Shape(tree)
                /\ SeqToSet(other.all_rules) = SeqToSet(all_rules)
                /\ Len(other.all_rules) = Len(all_rules)

\* an order of the transactions that changes the first-seen order of the
\* items, the node ids of the tree and the order of the rules
C11_Witness ==
    /\ pc = "filter_confidence_and_lift"
    /\ \E p \in Perms(N) :
          LET other == PermutedRun(p)
          IN  /\ other.all_items # all_items
              /\ other.tree # tree
              /\ other.item_nodes # item_nodes
              /\ other.all_rules # all_rules
              /\ Len(all_rules) >= 4

-----------------------------------------------------------------------------
(* C12 *)

\* the transaction with every item listed once, at its first place
RECURSIVE Dedup(_)
Dedup(t) ==
    IF t = <<>> THEN <<>>
    ELSE LET front == Dedup(SubSeq(t, 1, Len(t) - 1))
         IN  IF Occurs(t[Len(t)], front) THEN front ELSE Append(front, t[Len(t)])

DedupDb(db) == [i \in 1..Len(db) |-> Dedup(db[i])]

\* C12: a transaction that lists an item several times counts as if it
\* listed it once: the item frequencies, the paths of the tree (none carries
\* an item twice) and the rules are those of the collection with every
\* transaction de-duplicated.
C12_DuplicatesIgnored ==
    /\ MetricsDone => all_items = get_items_metrics(DedupDb(trans_db), item_weights)
    /\ pc = "filter_confidence_and_lift" =>
          LET other == RunOn(DedupDb(trans_db))
          IN  /\ \A nid \in DOMAIN tree : NoRepeat(PathTagsIn(tree, nid))
              /\ Shape(tree) = Shape(other.tree)
              /\ SeqToSet(all_rules) = SeqToSet(other.all_rules)

-----------------------------------------------------------------------------
(* C13 *)

\* the run of the usage examples: their collection, weights and thresholds
ReferenceRun ==
    /\ Filtered
    /\ trans_db = fixture_trans /\ item_weights = fixture_weights
    /\ min_item_freq = R(1, 4) /\ min_item_weight = R(1, 2)

\* the tree of the usage example of construct_fptree
ReferenceTree ==
    (0 :> RootNode) @@
    (1 :> [tag |-> ItemD, parent |-> 0, freq |-> R(4, 5), weight |-> R(7, 10)]) @@
    (2 :> [tag |-> ItemA, parent |-> 1, freq |-> R(2, 5), weight |-> R(1, 2)]) @@
    (3 :> [tag |-> ItemC, parent |-> 2, freq |-> R(1, 5), weight |-> R(9, 10)]) @@
    (4 :> [tag |-> ItemA, parent |-> 0, freq |-> R(1, 5), weight |-> R(1, 2)]) @@
    (5 :> [tag |-> ItemC, parent |-> 1, freq |-> R(1, 5), weight |-> R(9, 10)])

ReferenceItemNodes ==
    << [key |-> ItemD, val |-> <<1>>],
       [key |-> ItemA, val |-> <<2, 4>>],
       [key |-> ItemC, val |-> <<3, 5>>] >>

\* C13: on the collection of the usage examples with minimum frequency 0.25
\* and minimum weight 0.5, the item table is D (0.8, 0.7), A (0.6, 0.5),
\* C (0.4, 0.9) in that order; [A, C, B, D] is ordered as [D, A, C]; the tree
\* is D[1] 0.8, A[2] 0.4 under D, C[3] 0.2 under A[2], A[4] 0.2 under the
\* root, C[5] 0.2 under D, with the index {D: [1], A: [2, 4], C: [3, 5]};
\* the rule D => A has confidence 0.5 and the rule C => D confidence 1.
C13_ReferenceFixture ==
    ReferenceRun =>
        /\ items_metrics =
              << [item |-> ItemD, freq |-> R(4, 5), weight |-> R(7, 10)],
                 [item |-> ItemA, freq |-> R(3, 5), weight |-> R(1, 2)],
                 [item |-> ItemC, freq |-> R(2, 5), weight |-> R(9, 10)] >>
        /\ order_transaction(<<ItemA, ItemC, ItemB, ItemD>>, items_metrics)
              = <<ItemD, ItemA, ItemC>>
        /\ Built => (tree = ReferenceTree /\ item_nodes = ReferenceItemNodes)
        /\ RulesDone =>
              /\ \E k \in RulesFor(ItemD, ItemA) : all_rules[k].conf = R(1, 2)
              /\ \E k \in RulesFor(ItemC, ItemD) : all_rules[k].conf = R(1, 1)

\* the run of the usage examples, over, with its six rules
C13_Witness ==
    /\ ReferenceRun
    /\ pc = "done"
    /\ Len(all_rules) = 6
    /\ Cardinality(DOMAIN tree) = 6

-----------------------------------------------------------------------------
(* C14 *)

\* the items of the collection without an entry in the weight mapping
ItemsWithoutWeight == ItemsOf(trans_db) \ DOMAIN item_weights

\* C14: when an item of a transaction has no entry in the weight mapping,
\* get_items_metrics ends with an error that names such an item, the first
\* one it meets (every occurrence before it has a weight); it returns no
\* table, no row with a default weight, and no later stage runs.
C14_MissingWeightRaises ==
    (ItemsWithoutWeight # {} /\ pc # "get_items_metrics") =>
        /\ pc = "KeyError"
        /\ raised \in ItemsWithoutWeight
        /\ \E i \in 1..Len(Flatten(trans_db)) :
              /\ Flatten(trans_db)[i] = raised
              /\ \A j \in 1..(i - 1) : Flatten(trans_db)[j] \in DOMAIN item_weights
        /\ all_items = Unset /\ items_metrics = Unset /\ tree = Unset

\* a run ended by an item of the second transaction, after items that have a
\* weight; another item without weight comes later
C14_Witness ==
    /\ pc = "KeyError"
    /\ Cardinality(ItemsWithoutWeight) >= 2
    /\ N >= 2
    /\ ~Occurs(raised, trans_db[1])
    /\ trans_db[1] # <<>>

-----------------------------------------------------------------------------
(* C15 *)

\* the items of the collection given to construct_fptree that have no row in
\* the table of get_items_metrics
ItemsWithoutRow == ItemsOf(trans_db) \ SeqToSet(ItemColumn(all_items))

\* C15: construct_fptree fails on a transaction that lists an item without
\* any row in the metrics of get_items_metrics; it never returns a tree
\* built from a collection that has such an item.
C15_UnknownItemFailsFast ==
    (Filtered /\ ItemsWithoutRow # {}) => ~Built

-----------------------------------------------------------------------------
(* C16 *)

\* C16: with an empty collection, or with at most one item left by
\* filter_frequency_and_weight, no stage raises an exception: the pipeline
\* runs to its end and returns its (empty) outcome.
C16_NoItemsEndsNormally ==
    (Filtered /\ (N = 0 \/ Len(items_metrics) <= 1)) => pc # "KeyError"

-----------------------------------------------------------------------------
(* C17 *)

\* a threshold whose magnitude is above 1
OutOfRange(t) == Abs(t.n) > t.d

\* C17: a frequency, weight or confidence threshold whose magnitude is above
\* 1 is rejected by its filter: filter_frequency_and_weight returns no table
\* and no tree is built with such a threshold, and
\* filter_confidence_and_lift returns no rules with such a threshold.
C17_InvalidThresholdRejected ==
    /\ Filtered => (~OutOfRange(min_item_freq) /\ ~OutOfRange(min_item_weight))
    /\ pc = "done" => ~OutOfRange(min_rule_conf)

-----------------------------------------------------------------------------
(* C18 *)

\* construct_fptree has returned (either miner)
TreeReturned ==
    \/ Built
    \/ pc = "wofp_get_association_rules"

\* C18: once construct_fptree has returned, no step of the miner, the
\* weighted variant's get_association_rules included, changes the tree or
\* the ItemNodeIndex.
C18_ReadOnlyAfterBuild ==
    [][TreeReturned => (tree' = tree /\ item_nodes' = item_nodes)]_vars

-----------------------------------------------------------------------------
(* C19 *)

\* the rules of the item when its loop body runs alone
RulesAlone(item) ==
    RulesOfItem(item, get_condition_tree(item, tree, item_nodes), items_metrics)

\* the tasks whose locals a step changes
Written == {item \in DOMAIN tasks : tasks'[item] # tasks[item]}

-----------------------------------------------------------------------------
(* C20 *)

\* the tags of the ancestors of a node, the root left out
AncestorTags(nid) ==
    LET path == PathTagsIn(tree, nid)
    IN  {path[i] : i \in 1..(Len(path) - 1)}

\* C20: get_branch, called as the pipeline calls it (no option given),
\* records every non-root ancestor of the node, the ancestors whose id has
\* the first two characters of the item of the node included (collections
\* without a repeated item).
C20_EveryAncestorRecorded ==
    (Built /\ NoRepeatedItems) =>
        \A nid \in DOMAIN tree \ {RootNid} :
            SeqToSet(DictKeys(get_branch(tree, nid))) = AncestorTags(nid)

-----------------------------------------------------------------------------
(* C21 *)

\* the stages of _get_associations that filter the table, in their order,
\* each with the position of the pipeline at which it runs, the key under
\* which its count is kept and the message that names it
FilteringStages ==
    <<[at |-> "get_all_associations", key |-> "resource", message |-> NoneFound],
      [at |-> "get_target_associations", key |-> "target", message |-> NoneBetween],
      [at |-> "get_strong_associations", key |-> "strong", message |-> NoneStrong],
      [at |-> "get_unique_associations", key |-> "unique",
       message |-> "No unique associations found."],
      [at |-> "get_significant_associations", key |-> "corrected",
       message |-> NoneCorrected]>>

\* the number of filtering stages that have run
StagesRun ==
    IF associations = Unset /\ pc = "get_all_associations" THEN 0
    ELSE Len(associations_counter)

AnalysisOver == pc \in {"print_counter", "returned"}

\* C21: the filtering stages of _get_associations run in the order all,
\* target, strong, unique, corrected.  A stage runs only on a table that has
\* rows, and when a stage leaves no row the analysis stops at once and the
\* first message printed names that stage.
C21_StopAtFirstEmptyStage ==
    pc \in {"get_all_associations", "get_target_associations", "get_strong_associations",
            "get_unique_associations", "get_significant_associations",
            "enrich_associations", "print_counter", "returned"} =>
        /\ DictKeys(associations_counter) =
               SubSeq([i \in 1..5 |-> FilteringStages[i].key], 1, Len(associations_counter))
        /\ \A i \in 2..5 : pc = FilteringStages[i].at => associations # <<>>
        /\ pc = "enrich_associations" => associations # <<>>
        /\ (AnalysisOver /\ associations = <<>>) =>
               printed[1] = FilteringStages[StagesRun].message

-----------------------------------------------------------------------------
(* C22 *)

\* C22: when params['use_heuristic'] is False the heuristic stage
\* (_get_strong_associations) is not applied: the pipeline never stands at
\* that stage, no count is kept for it, and the table that goes on to the
\* redundancy stage is the table of the target associations.
C22_HeuristicOnlyWhenAsked ==
    (params # Unset /\ ~params.use_heuristic) =>
        /\ pc # "get_strong_associations"
        /\ ~DictHas(associations_counter, "strong")
        /\ pc = "get_unique_associations" =>
               Len(associations) = DictGet(associations_counter, "target")

-----------------------------------------------------------------------------
(* C23 *)

\* construct_fptree is in its loops: the tree exists and may still grow
Constructing == pc \in {"for_ti", "for_item"}

\* the children of the node that the index lists for the item
MatchingChildren(nid, item) ==
    IF DictHas(item_nodes, item)
    THEN SeqToSet(DictGet(item_nodes, item)) \cap Children(tree, nid)
    ELSE {}

\* C23: in every state of a sequential construct_fptree run, after each item
\* step of each insertion, no two children of one node carry the same item,
\* and for every node and item at most one child matches: the smallest-id
\* tie-break never has two candidates.
C23_NoSiblingRepeats ==
    Constructing =>
        /\ \A c1, c2 \in DOMAIN tree \ {RootNid} :
              (c1 # c2 /\ tree[c1].parent = tree[c2].parent) =>
                  tree[c1].tag # tree[c2].tag
        /\ \A nid \in DOMAIN tree : \A item \in Items :
              Cardinality(MatchingChildren(nid, item)) <= 1

\* an item step is about to find its child among several children
C23_Witness ==
    /\ pc = "for_item"
    /\ Cardinality(Children(tree, parent_nid)) >= 2
    /\ Cardinality(MatchingChildren(parent_nid, Head(ti))) = 1

-----------------------------------------------------------------------------
(* C24 *)

RECURSIVE SupportSum(_)
SupportSum(nids) ==
    IF nids = {} THEN Zero
    ELSE LET nid == CHOOSE x \in nids : TRUE
         IN  RatAdd(tree[nid].freq, SupportSum(nids \ {nid}))

\* C24: in every state of the construction, the states in the middle of one
\* insertion included, the support of a non-root node is at least the sum of
\* the supports of its children, and so at least the sum over the children
\* that carry any one item.
C24_SupportCoversChildren ==
    Constructing =>
        \A nid \in DOMAIN tree \ {RootNid} :
            /\ RatGeq(tree[nid].freq, SupportSum(Children(tree, nid)))
            /\ \A item \in Items :
                  RatGeq(tree[nid].freq,
                         SupportSum({c \in Children(tree, nid) : tree[c].tag = item}))

\* in the middle of an insertion, a node with two children whose supports
\* add up to its own
C24_Witness ==
    /\ pc = "for_item"
    /\ \E nid \in DOMAIN tree \ {RootNid} :
          /\ Cardinality(Children(tree, nid)) >= 2
          /\ tree[nid].freq = SupportSum(Children(tree, nid))

-----------------------------------------------------------------------------
(* C25 *)

NodesTagged(item) == {nid \in DOMAIN tree \ {RootNid} : tree[nid].tag = item}

Increasing(s) == \A i, j \in 1..Len(s) : i < j => s[i] < s[j]

\* C25: after every insertion step the index maps each item to exactly the
\* ids of the nodes tagged with it, without repetition and in increasing id
\* order; every non-root node is listed under its own tag and nowhere else;
\* the ids are 0 for the root and 1..n for the others, and a node's id is
\* larger than its parent's.
C25_IndexMatchesTree ==
    Constructing =>
        /\ \A i \in 1..Len(item_nodes) :
              /\ SeqToSet(item_nodes[i].val) = NodesTagged(item_nodes[i].key)
              /\ Increasing(item_nodes[i].val)
              /\ item_nodes[i].val # <<>>
        /\ \A nid \in DOMAIN tree \ {RootNid} :
              /\ DictHas(item_nodes, tree[nid].tag)
              /\ \A i \in 1..Len(item_nodes) :
                    nid \in SeqToSet(item_nodes[i].val) =>
                        item_nodes[i].key = tree[nid].tag
              /\ tree[nid].parent < nid
              /\ tree[nid].parent \in DOMAIN tree
        /\ DOMAIN tree = 0..(new_nid - 1)
        /\ Cardinality(SeqToSet(DictKeys(item_nodes))) = Len(item_nodes)

\* an item with two nodes in the index and a tree three levels deep
C25_Witness ==
    /\ Constructing
    /\ \E i \in 1..Len(item_nodes) : Len(item_nodes[i].val) >= 2
    /\ \E nid \in DOMAIN tree : nid # RootNid /\ tree[nid].parent # RootNid

-----------------------------------------------------------------------------
(* C26 *)

\* C26: when construct_fptree returns, for every item of the filtered table
\* the supports of the nodes that the index lists for the item add up to the
\* frequency that get_items_metrics reports for the item.
C26_NodeSupportsAddUpToFrequency ==
    TreeBuilt =>
        \A k \in 1..Len(items_metrics) :
            /\ DictHas(item_nodes, items_metrics[k].item)
            /\ SupportSum(SeqToSet(DictGet(item_nodes, items_metrics[k].item)))
                   = items_metrics[k].freq
            /\ \E j \in 1..Len(all_items) :
                  /\ all_items[j].item = items_metrics[k].item
                  /\ all_items[j].freq = items_metrics[k].freq

\* an item whose frequency is shared between two nodes
C26_Witness ==
    /\ TreeBuilt
    /\ \E k \in 1..Len(items_metrics) :
          /\ DictHas(item_nodes, items_metrics[k].item)
          /\ Len(DictGet(item_nodes, items_metrics[k].item)) >= 2

-----------------------------------------------------------------------------
(* C27 *)

\* the item of the first row of the filtered table
FirstItem == items_metrics[1].item

\* C27: when the tree is built, the first item of the filtered table has
\* exactly one node, a child of the root; its condition tree is empty, and
\* get_rules_metrics, which skips that item alone, returns the rules that
\* the loop over every item of the table would return.
C27_FirstItemHasNoRule ==
    (TreeBuilt /\ items_metrics # <<>>) =>
        /\ \E nid \in DOMAIN tree :
              /\ NodesTagged(FirstItem) = {nid}
              /\ tree[nid].parent = RootNid
        /\ get_condition_tree(FirstItem, tree, item_nodes) = <<>>
        /\ HeadItems(items_metrics) = Tail(ItemColumn(items_metrics))
        /\ get_rules_metrics(tree, item_nodes, items_metrics)
               = RulesLoop(ItemColumn(items_metrics), tree, item_nodes, items_metrics)

-----------------------------------------------------------------------------
(* C28 *)

AllWritten == \A w \in Writers : writers[w].pc = "done"

\* the invariants of the builder.  No two siblings carry one item.
NoSiblingRepeats ==
    \A c1, c2 \in DOMAIN tree \ {RootNid} :
        (c1 # c2 /\ tree[c1].parent = tree[c2].parent) => tree[c1].tag # tree[c2].tag

\* No node id is given twice: none is listed twice in the index and the
\* tree has refused none.
NoIdGivenTwice ==
    /\ LET listed == Flatten([i \in 1..Len(item_nodes) |-> item_nodes[i].val])
       IN  \A i, j \in 1..Len(listed) : i # j => listed[i] # listed[j]
    /\ \A w \in Writers : writers[w].pc # "DuplicatedNodeIdError"

\* No support increment is lost: once every insertion is over, the supports
\* of the nodes of an item add up to the frequency of the item.
NoIncrementLost ==
    AllWritten =>
        \A k \in 1..Len(items_metrics) :
            SupportSum(NodesTagged(items_metrics[k].item)) = items_metrics[k].freq

BuilderInvariant == NoSiblingRepeats /\ NoIdGivenTwice /\ NoIncrementLost

\* C28: as long as the insertions have run one after the other, no state
\* breaks an invariant of the builder; with the steps of two insertions
\* interleaved a state that breaks them is reached (the witness).
C28_SingleWriterKeepsInvariants ==
    (pc = "writers" /\ ~overlap) => BuilderInvariant

\* two interleaved insertions are over: an increment was lost, two siblings
\* carry one item and an id was given twice
C28_Witness ==
    /\ pc = "writers" /\ overlap /\ AllWritten
    /\ ~NoIncrementLost
    /\ ~NoSiblingRepeats
    /\ ~NoIdGivenTwice

-----------------------------------------------------------------------------
(* C29 *)

\* the first row of freq_items, the item of highest priority
FirstRowItem == items_metrics[1].item

\* the first call of get_association_rules on the index of construct_fptree
FirstRuleCall ==
    /\ pc = "wofp_get_association_rules"
    /\ rule_calls = 0 /\ rule_calls' = 1

\* C29: the first call of get_association_rules of the weighted variant
\* removes from the index the first row of freq_items and no other item:
\* the heads it processes are all the items of the tree but that one.
C29_PoppedItemIsFirstRow ==
    [][FirstRuleCall =>
            SeqToSet(DictKeys(item_nodes')) =
                SeqToSet(DictKeys(item_nodes)) \ {FirstRowItem}]_vars

-----------------------------------------------------------------------------
(* C30 *)

\* an entry that is numeric and whose magnitude lies in [mini, maxi]
Valid(e) ==
    /\ Numeric(e)
    /\ mini <= Abs(float(e)) /\ Abs(float(e)) <= maxi

FirstValid ==
    CHOOSE i \in 1..Len(typed) :
        Valid(typed[i]) /\ \A j \in 1..(i - 1) : ~Valid(typed[j])

\* C30: get_numeric_input returns only after a valid entry has been typed,
\* and what it returns is the value of the first valid entry with the sign
\* typed for that entry, whatever the invalid entries before it.
C30_ReturnsFirstValidEntry ==
    pc = "returned" =>
        /\ \E i \in 1..Len(typed) : Valid(typed[i])
        /\ var = float(typed[FirstValid])

====
